---------------------------- MODULE Spec2Model ----------------------------
(***************************************************************************)
(* Verification model of ARG-STATS: the ingestion normalizer               *)
(* (src/api.py: load_match_directly, get_automated_updates), the event     *)
(* store schema (src/db_manager.py: initialize_database) and the           *)
(* prediction engine (src/app.py: get_prediction_logic).                   *)
(*                                                                         *)
(* Python values are modelled as follows.  A JSON section of the upstream  *)
(* payload is a record with a tag: "missing" (key absent, .get() returns   *)
(* its default), "null" (key present with value null, the next .get() on   *)
(* it raises AttributeError) or "val".  str(None) is the string "None".    *)
(* A SQL table with a declared primary key is a set of rows, a table with  *)
(* an AUTOINCREMENT key is a sequence of rows (position = assigned id).    *)
(***************************************************************************)
EXTENDS Integers, Sequences, FiniteSets, TLC

VARIABLES
    matches,               \* table matches (PRIMARY KEY id)
    player_match_details,  \* table player_match_details (PRIMARY KEY match_id, player_id)
    shots,                 \* table shots (shot_id AUTOINCREMENT)
    cards,                 \* table cards (card_id AUTOINCREMENT)
    log,                   \* lines appended to update_log.txt
    running,               \* get_automated_updates is inside its for loop
    match_ids,             \* ids the running batch has still to ingest
    fetches,               \* number of requests made to the upstream API
    last,                  \* the latest load_match_directly call: match id, fetched payload, lines logged
    query,                 \* arguments of the latest get_prediction_logic call
    result,                \* value it returned
    stats_query,           \* arguments of the leaderboard calls: category, filter_type, order_by, limit
    team_stats,            \* what get_team_stats_core and get_rankings_from_stats returned last
    ref_stats,             \* what get_referee_rankings and get_referee_detailed_tops returned last
    player_stats,          \* what get_league_player_stats_last_matches returned last
    concurrent             \* load_match_directly calls running side by side: the tables when
                           \* they began and, per process, match id, position, payload

dbvars    == <<matches, player_match_details, shots, cards>>
batchvars == <<running, match_ids>>
predvars  == <<query, result>>
statvars  == <<stats_query, team_stats, ref_stats, player_stats>>
vars      == <<matches, player_match_details, shots, cards, log, running,
               match_ids, fetches, last, query, result, stats_query, team_stats, ref_stats,
               player_stats, concurrent>>

---------------------------------------------------------------------------
(* Bounds of the model *)

\* upper bound on the number of upstream requests in one behaviour
MaxFetch == 2

\* largest rank position a leaderboard of the model assigns
MaxRank == 31

\* largest number of matches a windowed leaderboard is asked for
MaxLimit == 2

---------------------------------------------------------------------------
(* Identifiers *)

MatchIds == {"m1", "m2"}

None == "None"

\* The fixture list of the upstream source: what general/infoBox report for
\* each match id (teams, kickoff in hours UTC, round name, referee).
Fixture(m) ==
    IF m = "m1"
    THEN [matchTimeUTCDate |-> 13, leagueRoundName |-> "1",
          homeTeam |-> [id |-> "t1", name |-> "T1"],
          awayTeam |-> [id |-> "t2", name |-> "T2"], referee |-> "r1"]
    ELSE IF m = "m2"
    THEN [matchTimeUTCDate |-> 23, leagueRoundName |-> "2",
          homeTeam |-> [id |-> "t2", name |-> "T2"],
          awayTeam |-> [id |-> "t1", name |-> "T1"], referee |-> "r2"]
    ELSE [matchTimeUTCDate |-> 33, leagueRoundName |-> "3",
          homeTeam |-> [id |-> "t1", name |-> "T1"],
          awayTeam |-> [id |-> "t3", name |-> "T3"], referee |-> "r1"]

\* general section when the key is absent: every .get() yields its default
NoGeneral ==
    [matchTimeUTCDate |-> 0, leagueRoundName |-> None,
     homeTeam |-> [id |-> None, name |-> None],
     awayTeam |-> [id |-> None, name |-> None], referee |-> None]

---------------------------------------------------------------------------
(* Helpers of src/api.py *)

\* NULL date is 0 (SQLite sorts NULL below every value); kickoff times are
\* hours.  A missing timestamp makes utc_str.replace raise inside the bare
\* except, which returns the argument unchanged.
adjust_utc_to_arg(utc) == IF utc = 0 THEN 0 ELSE utc - 3

\* str(convert_round_to_number(round_str))
convert_round_to_number(round_str) ==
    CASE round_str = "1/8"        -> "17"
      [] round_str = "1/4"        -> "18"
      [] round_str = "1/2"        -> "19"
      [] round_str = "Semi-final" -> "19"
      [] round_str = "Final"      -> "20"
      [] OTHER                    -> round_str

---------------------------------------------------------------------------
(* Rows and tables *)

NoRows == {}

\* variant: the table is emptied before the row is inserted
Upsert_Truncate(table, row) == {row}

\* INSERT OR REPLACE INTO matches: the row with the same primary key goes
Upsert(table, row) == {r \in table : r.id # row.id} \cup {row}

RowsOf(table, m) == {r \in table : r.match_id = m}

SeqRowsOf(table, m) == SelectSeq(table, LAMBDA r : r.match_id = m)

Line(level, m, msg) == [level |-> level, match_id |-> m, msg |-> msg]

\* what a call leaves behind: the database, the lines it logged, and whether
\* an exception propagates to the caller
Outcome(db, lines, raised) == [db |-> db, lines |-> lines, raised |-> raised]

---------------------------------------------------------------------------
(* load_match_directly, step 1: the matches row *)

match_row(m, P) ==
    [id           |-> m,
     date         |-> adjust_utc_to_arg(P.general.matchTimeUTCDate),
     finished     |-> P.finished,
     gameweek     |-> convert_round_to_number(P.general.leagueRoundName),
     id_home_team |-> P.general.homeTeam.id,
     home_team    |-> P.general.homeTeam.name,
     id_away_team |-> P.general.awayTeam.id,
     away_team    |-> P.general.awayTeam.name,
     referee      |-> P.general.referee]

\* cursor.execute(INSERT OR REPLACE ...); cursor.connection.commit()
UpsertMatch(m, P, db) == [db EXCEPT !.matches = Upsert(@, match_row(m, P))]

---------------------------------------------------------------------------
(* step 2: player_match_details *)

\* all_stats for one player, flattened from playerStats[pid]; int() of the
\* looked-up values.  tag "none": no stats for the player, the defaults
\* apply; tag "bad": a value int() cannot convert.
player_row(m, pid, team_id, section, stats) ==
    [match_id        |-> m,
     player_id       |-> pid,
     team_id         |-> team_id,
     is_starter      |-> (section = "starters"),
     minutes_played  |-> IF stats[pid].tag = "num" THEN stats[pid].minutes_played
                         ELSE IF section = "starters" THEN 90 ELSE 0,
     fouls_committed |-> IF stats[pid].tag = "num" THEN stats[pid].fouls ELSE 0,
     fouls_received  |-> IF stats[pid].tag = "num" THEN stats[pid].was_fouled ELSE 0]

SectionRows(m, team_data, section, stats) ==
    LET ps == IF section = "starters" THEN team_data.starters ELSE team_data.subs
    IN  [i \in 1..Len(ps) |-> player_row(m, ps[i], team_data.id, section, stats)]

\* variant: only the starters of a side get a row
SideRows_StartersOnly(m, team_data, stats) ==
    SectionRows(m, team_data, "starters", stats)

SideRows(m, team_data, stats) ==
    SectionRows(m, team_data, "starters", stats) \o SectionRows(m, team_data, "subs", stats)

\* player_rows, in the order the nested loops append them
player_rows(m, P) ==
    SideRows(m, P.lineup.homeTeam, P.playerStats) \o SideRows(m, P.lineup.awayTeam, P.playerStats)

Listed(P) ==
    {P.lineup.homeTeam.starters[i] : i \in 1..Len(P.lineup.homeTeam.starters)} \cup
    {P.lineup.homeTeam.subs[i]     : i \in 1..Len(P.lineup.homeTeam.subs)} \cup
    {P.lineup.awayTeam.starters[i] : i \in 1..Len(P.lineup.awayTeam.starters)} \cup
    {P.lineup.awayTeam.subs[i]     : i \in 1..Len(P.lineup.awayTeam.subs)}

\* building player_rows raises: lineup is null (lineup.get) or int() fails
PlayerRowsRaise(P) ==
    \/ P.lineup.tag = "null"
    \/ \E pid \in Listed(P) : P.playerStats[pid].tag = "bad"

\* variant: PRIMARY KEY (player_id), a player has one row for all matches
PrimaryKeyConflict_PlayerOnly(table, rows) ==
    \/ \E i, j \in 1..Len(rows) : i # j /\ rows[i].player_id = rows[j].player_id
    \/ \E i \in 1..Len(rows) : \E r \in table : r.player_id = rows[i].player_id

\* PRIMARY KEY (match_id, player_id): the batch is rejected as a whole
\* (to_sql runs in one transaction) if two of its rows, or one of its rows
\* and a stored row, share the key
PrimaryKeyConflict(table, rows) ==
    \/ \E i, j \in 1..Len(rows) :
          i # j /\ rows[i].match_id = rows[j].match_id /\ rows[i].player_id = rows[j].player_id
    \/ \E i \in 1..Len(rows) : \E r \in table :
          r.match_id = rows[i].match_id /\ r.player_id = rows[i].player_id

SeqToSet(rows) == {rows[i] : i \in 1..Len(rows)}

---------------------------------------------------------------------------
(* step 3: shots *)

shot_row(m, s) ==
    [match_id   |-> m,
     player_id  |-> s.playerId,
     team_id    |-> s.teamId,
     on_target  |-> (s.isOnTarget /\ ~s.isBlocked),
     shot_type  |-> s.shotType,
     inside_box |-> s.isFromInsideBox]

shot_rows(m, P) == [i \in 1..Len(P.shots.val) |-> shot_row(m, P.shots.val[i])]

---------------------------------------------------------------------------
(* step 4: cards *)

card_row(m, ev, h_id_card, a_id_card) ==
    [match_id  |-> m,
     player_id |-> ev.player,
     team_id   |-> IF ev.isHome THEN h_id_card ELSE a_id_card,
     card_type |-> ev.card]

\* the events that pass "if c_type" and are not tagged not_on_pitch
CardEvents(events) ==
    SelectSeq(events, LAMBDA ev : ev.card # None /\ ev.localizedKey # "not_on_pitch")

card_rows(m, P) ==
    LET evs == CardEvents(P.events.val)
    IN  [i \in 1..Len(evs) |->
            card_row(m, evs[i], P.general.homeTeam.id, P.general.awayTeam.id)]

---------------------------------------------------------------------------
(* load_match_directly as a function of the match id, the fetched payload  *)
(* and the database; it yields the database, the lines logged and whether  *)
(* an exception leaves the call.                                           *)

\* variant: no except clause, the exception leaves the call unlogged
Caught_Propagates(m, db, lines) == Outcome(db, lines, TRUE)

\* except Exception as e: logging.error(...)
Caught(m, db, lines) == Outcome(db, lines \o <<Line("ERROR", m, "error")>>, FALSE)

\* step 4 of the code: build card_rows, append them when there are any
WriteCards(m, P, db, lines) ==
    IF P.events.tag = "null"
    THEN Caught(m, db, lines)
    ELSE LET rows == card_rows(m, P)
         IN  IF rows = <<>>
             THEN Outcome(db, lines \o <<Line("INFO", m, "complete")>>, FALSE)
             ELSE Outcome([db EXCEPT !.cards = @ \o rows],
                          lines \o <<Line("INFO", m, "cards"), Line("INFO", m, "complete")>>,
                          FALSE)

\* step 3 of the code: build shot_rows, append them when there are any
WriteShots(m, P, db, lines) ==
    IF P.shots.tag = "null"
    THEN Caught(m, db, lines)
    ELSE LET rows == shot_rows(m, P)
         IN  IF rows = <<>>
             THEN WriteCards(m, P, db, lines)
             ELSE WriteCards(m, P, [db EXCEPT !.shots = @ \o rows],
                             lines \o <<Line("INFO", m, "shots")>>)

\* variant: the matches INSERT is not committed on its own, so a failure of
\* the player step rolls it back together with the rows of the step
WritePlayers_Rollback(m, P, db, lines) ==
    IF PlayerRowsRaise(P)
    THEN Caught(m, [db EXCEPT !.matches = {r \in @ : r.id # m}], lines)
    ELSE LET rows == player_rows(m, P)
         IN  IF rows = <<>>
             THEN WriteShots(m, P, db, lines)
             ELSE IF PrimaryKeyConflict(db.player_match_details, rows)
             THEN Caught(m, [db EXCEPT !.matches = {r \in @ : r.id # m}], lines)
             ELSE WriteShots(m, P,
                             [db EXCEPT !.player_match_details = @ \cup SeqToSet(rows)],
                             lines \o <<Line("INFO", m, "players")>>)

\* step 2 of the code: build player_rows, append them when there are any
WritePlayers(m, P, db, lines) ==
    IF PlayerRowsRaise(P)
    THEN Caught(m, db, lines)
    ELSE LET rows == player_rows(m, P)
         IN  IF rows = <<>>
             THEN WriteShots(m, P, db, lines)
             ELSE IF PrimaryKeyConflict(db.player_match_details, rows)
             THEN Caught(m, db, lines)
             ELSE WriteShots(m, P,
                             [db EXCEPT !.player_match_details = @ \cup SeqToSet(rows)],
                             lines \o <<Line("INFO", m, "players")>>)

\* variant: no early return for a match that is not finished
load_match_directly_NoEarlyReturn(m, P, db) ==
    CASE P.shape = "raise"       -> Caught(m, db, <<>>)
      [] P.shape = "empty"       -> Outcome(db, <<Line("WARNING", m, "empty")>>, FALSE)
      [] P.shape = "nullsection" -> Caught(m, db, <<>>)
      [] OTHER -> WritePlayers(m, P, UpsertMatch(m, P, db), <<Line("INFO", m, "start")>>)

\* shape "raise": the request or .json() raises; "empty": a falsy response;
\* "nullsection": a response that is not an object, or whose general,
\* header, status, content, matchFacts or infoBox is null, so that a .get()
\* raises before the INSERT; "ok": anything else
load_match_directly(m, P, db) ==
    CASE P.shape = "raise"       -> Caught(m, db, <<>>)
      [] P.shape = "empty"       -> Outcome(db, <<Line("WARNING", m, "empty")>>, FALSE)
      [] P.shape = "nullsection" -> Caught(m, db, <<>>)
      [] OTHER ->
            IF ~P.finished
            THEN Outcome(UpsertMatch(m, P, db), <<Line("INFO", m, "pending")>>, FALSE)
            ELSE WritePlayers(m, P, UpsertMatch(m, P, db), <<Line("INFO", m, "start")>>)

---------------------------------------------------------------------------
(* The payloads the upstream source may answer with *)

PlayerIds == {"p1", "p2"}

\* the player a team lists
PlayerOf(team_id) == IF team_id = "t1" THEN "p1" ELSE "p2"

NoStat  == [tag |-> "none", minutes_played |-> 0,  fouls |-> 0, was_fouled |-> 0]
NumStat == [tag |-> "num",  minutes_played |-> 45, fouls |-> 1, was_fouled |-> 2]
BadStat == [tag |-> "bad",  minutes_played |-> 0,  fouls |-> 0, was_fouled |-> 0]

NoPlayerStats == [pid \in PlayerIds |-> NoStat]

\* playerStats without entries, or with an entry for player p1
StatsChoices == {[NoPlayerStats EXCEPT !["p1"] = st] : st \in {NoStat, NumStat, BadStat}}

EmptySide == [id |-> None, starters |-> <<>>, subs |-> <<>>]

MissingLineup == [tag |-> "missing", homeTeam |-> EmptySide, awayTeam |-> EmptySide]
NullLineup    == [tag |-> "null",    homeTeam |-> EmptySide, awayTeam |-> EmptySide]

\* the home side lists its player as a starter, as a substitute, as both
\* or not at all; the away side lists its player as a starter or not at all
HomeSides(team_id) ==
    {[id |-> team_id, starters |-> st, subs |-> sb] :
        st \in {<<>>, <<PlayerOf(team_id)>>}, sb \in {<<>>, <<PlayerOf(team_id)>>}}

AwaySides(team_id) ==
    {[id |-> team_id, starters |-> st, subs |-> <<>>] : st \in {<<>>, <<PlayerOf(team_id)>>}}

LineupChoices(m) ==
    {MissingLineup, NullLineup} \cup
    {[tag |-> "val", homeTeam |-> h, awayTeam |-> a] :
        h \in HomeSides(Fixture(m).homeTeam.id), a \in AwaySides(Fixture(m).awayTeam.id)}

\* a shot of the home side
HomeShot(m) ==
    [playerId |-> PlayerOf(Fixture(m).homeTeam.id), teamId |-> Fixture(m).homeTeam.id,
     isOnTarget |-> TRUE, isBlocked |-> FALSE, shotType |-> "Header",
     isFromInsideBox |-> TRUE]

MissingList == [tag |-> "missing", val |-> <<>>]
NullList    == [tag |-> "null", val |-> <<>>]
List(v)     == [tag |-> "val", val |-> v]

ShotChoices(m) == {MissingList, NullList, List(<<HomeShot(m)>>)}

\* timeline events: one without a card, a card for either side, and a card
\* given to a player who was not on the pitch
NoCardEvent(m) ==
    [card |-> None, localizedKey |-> None, isHome |-> TRUE,
     player |-> PlayerOf(Fixture(m).homeTeam.id)]
HomeCard(m) ==
    [card |-> "Yellow", localizedKey |-> None, isHome |-> TRUE,
     player |-> PlayerOf(Fixture(m).homeTeam.id)]
AwayCard(m) ==
    [card |-> "Yellow", localizedKey |-> None, isHome |-> FALSE,
     player |-> PlayerOf(Fixture(m).awayTeam.id)]
OffPitchCard(m) ==
    [card |-> "Red", localizedKey |-> "not_on_pitch", isHome |-> TRUE,
     player |-> PlayerOf(Fixture(m).homeTeam.id)]

EventKinds(m) == {NoCardEvent(m), HomeCard(m), AwayCard(m), OffPitchCard(m)}

EventChoices(m) ==
    {MissingList, NullList, List(<<OffPitchCard(m), AwayCard(m)>>)} \cup
    {List(<<ev>>) : ev \in EventKinds(m)}

\* a response without any of the sections the code reads
BarePayload(shape) ==
    [shape |-> shape, general |-> NoGeneral, finished |-> FALSE,
     lineup |-> MissingLineup, playerStats |-> NoPlayerStats,
     shots |-> MissingList, events |-> MissingList]

\* the complete report of a played match: both starters, a shot, two cards
FullPayload(m) ==
    [shape |-> "ok", general |-> Fixture(m), finished |-> TRUE,
     lineup |-> [tag |-> "val",
                 homeTeam |-> [id |-> Fixture(m).homeTeam.id,
                               starters |-> <<PlayerOf(Fixture(m).homeTeam.id)>>, subs |-> <<>>],
                 awayTeam |-> [id |-> Fixture(m).awayTeam.id,
                               starters |-> <<PlayerOf(Fixture(m).awayTeam.id)>>, subs |-> <<>>]],
     playerStats |-> NoPlayerStats,
     shots |-> List(<<HomeShot(m)>>),
     events |-> List(<<OffPitchCard(m), AwayCard(m)>>)]

\* round names other than a gameweek number: one of the lookup table, one it
\* does not hold, and the key missing (general.get yields None)
RoundNames == {"Final", "Round of 16", None}

\* the reports that differ from the complete one in at most one section, or
\* in the round name
Reports(m) ==
    {[FullPayload(m) EXCEPT !.general.leagueRoundName = rn] : rn \in RoundNames} \cup
    {[FullPayload(m) EXCEPT !.lineup = l] : l \in LineupChoices(m)} \cup
    {[FullPayload(m) EXCEPT !.playerStats = st] : st \in StatsChoices} \cup
    {[FullPayload(m) EXCEPT !.shots = sh] : sh \in ShotChoices(m)} \cup
    {[FullPayload(m) EXCEPT !.events = ev] : ev \in EventChoices(m)}

\* every answer of the upstream source to a request for match m: a failed
\* request, an empty, broken or section-less response, or a report of the
\* match, played or not
Payloads ==
    [m \in MatchIds |->
        {BarePayload(sh) : sh \in {"raise", "empty", "nullsection", "ok"}} \cup
        {[P EXCEPT !.finished = f] : P \in Reports(m), f \in BOOLEAN}]

\* the fixture as published before kickoff
PendingPayload(m) ==
    [BarePayload("ok") EXCEPT !.general = Fixture(m)]

\* a shot of the away side from outside the box that misses the target
AwayShot(m) ==
    [playerId |-> PlayerOf(Fixture(m).awayTeam.id), teamId |-> Fixture(m).awayTeam.id,
     isOnTarget |-> FALSE, isBlocked |-> FALSE, shotType |-> "RightFoot",
     isFromInsideBox |-> FALSE]

\* the season the leaderboards are computed over: three fixtures
SeasonIds == {"m1", "m2", "m3"}

\* reports of a played match: the complete one with foul counts for p1; one
\* without referee, whose home player is listed as a substitute without
\* minutes, with three shots and a home card; one without lineup and shots,
\* with a card for either side
SeasonReports(m) ==
    {[FullPayload(m) EXCEPT !.playerStats = [NoPlayerStats EXCEPT !["p1"] = NumStat]],
     [FullPayload(m) EXCEPT !.general.referee = None,
                            !.lineup.homeTeam.starters = <<>>,
                            !.lineup.homeTeam.subs = <<PlayerOf(Fixture(m).homeTeam.id)>>,
                            !.shots = List(<<HomeShot(m), AwayShot(m), AwayShot(m)>>),
                            !.events = List(<<HomeCard(m)>>)],
     [FullPayload(m) EXCEPT !.lineup = MissingLineup,
                            !.shots = MissingList,
                            !.events = List(<<HomeCard(m), AwayCard(m)>>)]}

SeasonPayloads == [m \in SeasonIds |-> {PendingPayload(m)} \cup SeasonReports(m)]

---------------------------------------------------------------------------
(* get_automated_updates *)

NumStr == <<"1", "2", "3", "4", "5", "6", "7", "8", "9", "10", "11", "12", "13",
            "14", "15", "16", "17", "18", "19", "20", "21">>

\* int(s) succeeds
IsInt(s) == \E i \in 1..Len(NumStr) : NumStr[i] = s

IntOf(s) == CHOOSE i \in 1..Len(NumStr) : NumStr[i] = s

\* SELECT gameweek FROM matches WHERE finished = 1 ORDER BY date DESC LIMIT 1
LastFinished(ms) ==
    {r \in ms : r.finished /\ \A q \in ms : q.finished => q.date <= r.date}

\* SELECT id FROM matches WHERE (gameweek = ? OR gameweek = ?) AND finished = 0
PendingIds(ms, current_gw) ==
    {r.id : r \in {q \in ms : /\ ~q.finished
                              /\ \/ q.gameweek = NumStr[current_gw]
                                 \/ (current_gw < Len(NumStr) /\ q.gameweek = NumStr[current_gw + 1])}}

\* the orders in which the unordered SELECT may return a set of ids
OrdersOf(S) ==
    {sq \in [1..Cardinality(S) -> S] : \A i, j \in DOMAIN sq : i # j => sq[i] # sq[j]}

---------------------------------------------------------------------------
(* get_prediction_logic (src/app.py).  A ranking is a dict from ids to     *)
(* rank positions: a function whose domain holds the ids it ranks.         *)

\* nominal league size of the rank arithmetic
L == 30

\* ref_val = None
NoRank == 0

\* variant: a missing id gets the position after the last one of the ranking
Get_AfterLast(d, key, default) ==
    IF key \in DOMAIN d THEN d[key] ELSE Cardinality(DOMAIN d) + 1

\* d.get(key, default)
Get(d, key, default) == IF key \in DOMAIN d THEN d[key] ELSE default

\* int(num / den * 100): the quotient truncated toward zero (the float
\* product is exact enough never to cross an integer for these divisors)
PyInt(num, den) ==
    IF num >= 0 THEN (100 * num) \div den ELSE 0 - ((100 * (0 - num)) \div den)

\* variant: the divisor is 2L instead of 2L - 2
SideScore_OverTwoL(rm, ra) == PyInt((30 - rm) + (30 - ra), 60)

\* variant: round() instead of int()
SideScore_Rounded(rm, ra) == (200 * ((30 - rm) + (30 - ra)) + 58) \div 116

\* h_s / v_s of the else branch
SideScore(rm, ra) == PyInt((30 - rm) + (30 - ra), 58)

\* variant: the referee term is left out of the sum
SideScoreRef_NoReferee(rm, ra, ref_val) == PyInt((30 - rm) + (30 - ra), 87)

\* h_s / v_s of the referee branch
SideScoreRef(rm, ra, ref_val) == PyInt((30 - rm) + (30 - ra) + (30 - ref_val), 87)

\* gen of the referee branch
GenScoreRef(rm_h, ra_h, rm_v, ra_v, ref_val) ==
    PyInt((30 - rm_h) + (30 - ra_h) + (30 - rm_v) + (30 - ra_v) + (30 - ref_val), 143)

\* variant: the referee term applies to every category
get_prediction_logic_AnyCategory(home_id, away_id, category, referee, m_ranks, a_ranks, ref_ranks) ==
    LET rm_h == Get(m_ranks, home_id, 15)
        ra_h == Get(a_ranks, home_id, 15)
        rm_v == Get(m_ranks, away_id, 15)
        ra_v == Get(a_ranks, away_id, 15)
    IN  IF referee \notin {None, ""}
        THEN LET ref_val == Get(ref_ranks, referee, 15)
             IN  [h |-> SideScoreRef(rm_h, ra_v, ref_val),
                  v |-> SideScoreRef(rm_v, ra_h, ref_val),
                  gen |-> GenScoreRef(rm_h, ra_h, rm_v, ra_v, ref_val),
                  rm_h |-> rm_h, ra_h |-> ra_h, rm_v |-> rm_v, ra_v |-> ra_v,
                  ref_rank |-> ref_val]
        ELSE LET h_s == SideScore(rm_h, ra_v)
                 v_s == SideScore(rm_v, ra_h)
             IN  [h |-> h_s, v |-> v_s, gen |-> (h_s + v_s) \div 2,
                  rm_h |-> rm_h, ra_h |-> ra_h, rm_v |-> rm_v, ra_v |-> ra_v,
                  ref_rank |-> NoRank]

\* "if referee and category in ['cards', 'fouls']": None and the empty name
\* are falsy.
\* m_ranks, a_ranks: the made and against rankings in force (precalc_ranks
\* or get_rankings_from_stats); ref_ranks: the referee ranking in force
get_prediction_logic(home_id, away_id, category, referee, m_ranks, a_ranks, ref_ranks) ==
    LET rm_h == Get(m_ranks, home_id, 15)
        ra_h == Get(a_ranks, home_id, 15)
        rm_v == Get(m_ranks, away_id, 15)
        ra_v == Get(a_ranks, away_id, 15)
    IN  IF referee \notin {None, ""} /\ category \in {"cards", "fouls"}
        THEN LET ref_val == Get(ref_ranks, referee, 15)
             IN  [h |-> SideScoreRef(rm_h, ra_v, ref_val),
                  v |-> SideScoreRef(rm_v, ra_h, ref_val),
                  gen |-> GenScoreRef(rm_h, ra_h, rm_v, ra_v, ref_val),
                  rm_h |-> rm_h, ra_h |-> ra_h, rm_v |-> rm_v, ra_v |-> ra_v,
                  ref_rank |-> ref_val]
        ELSE LET h_s == SideScore(rm_h, ra_v)
                 v_s == SideScore(rm_v, ra_h)
             IN  [h |-> h_s, v |-> v_s, gen |-> (h_s + v_s) \div 2,
                  rm_h |-> rm_h, ra_h |-> ra_h, rm_v |-> rm_v, ra_v |-> ra_v,
                  ref_rank |-> NoRank]

NoQuery ==
    [home_id |-> None, away_id |-> None, category |-> None, referee |-> None,
     m_ranks |-> <<>>, a_ranks |-> <<>>, ref_ranks |-> <<>>]

NoResult ==
    [h |-> 0, v |-> 0, gen |-> 0, rm_h |-> 0, ra_h |-> 0, rm_v |-> 0, ra_v |-> 0,
     ref_rank |-> NoRank]

\* the dict that ranks k1 at x and k2 at y, where position 0 stands for an
\* id the ranking does not hold
RankDict(k1, x, k2, y) ==
    [k \in {q \in {k1, k2} : (IF q = k1 THEN x ELSE y) # 0} |-> IF k = k1 THEN x ELSE y]

\* the prediction queries for the fixture t1 - t2.  The made ranking holds
\* t1 anywhere or not at all and t2 first or not at all, the against ranking
\* the other way round; the ranking of referee r1 varies where a referee
\* term can apply
IsQuery(c, r, rr) ==
    (r \in {None, ""} \/ c \notin {"cards", "fouls"}) => rr = 3

Query(c, r, mh, mv, av, ah, rr) ==
    [home_id |-> "t1", away_id |-> "t2", category |-> c, referee |-> r,
     m_ranks |-> RankDict("t1", mh, "t2", mv),
     a_ranks |-> RankDict("t2", av, "t1", ah),
     ref_ranks |-> RankDict("r1", rr, "r2", 1)]

---------------------------------------------------------------------------
(* Leaderboards of src/app.py.  A query result is a list of entries; where  *)
(* SQL or the stable sort leaves the order of equal keys open, every order *)
(* is a possible result, so each function yields the set of its results.   *)
(* avg is kept in hundredths: round(x, 2) * 100.                           *)

RECURSIVE SumOf(_)
\* SUM(n) over a set of tally records (COUNT(*) when every n is 1)
SumOf(S) ==
    IF S = {} THEN 0
    ELSE LET x == CHOOSE y \in S : TRUE IN x.n + SumOf(S \ {x})

\* round(total / pj, 2) in hundredths (no quotient of the model lies half
\* way between two hundredths)
Round2(total, pj) == (200 * total + pj) \div (2 * pj)

\* teams_map: SELECT DISTINCT id_home_team as id, home_team as name FROM matches
teams_map(db) ==
    [tid \in {r.id_home_team : r \in db.matches} |->
        CHOOSE nm \in {r.home_team : r \in {q \in db.matches : q.id_home_team = tid}} : TRUE]

\* where_f / shot_type = 'Header'
ShotPasses(category, filter_type, s) ==
    IF category = "headers" THEN s.shot_type = "Header"
    ELSE CASE filter_type = "target" -> s.on_target
           [] filter_type = "long"   -> ~s.inside_box
           [] OTHER                  -> TRUE

\* CASE WHEN team_id = m.id_home_team THEN m.id_away_team ELSE m.id_home_team END
Opponent(mrow, team_id) ==
    IF team_id = mrow.id_home_team THEN mrow.id_away_team ELSE mrow.id_home_team

\* the rows the made queries aggregate, each with the team it counts for
MadeTally(db, category, filter_type) ==
    CASE category \in {"shots", "headers"} ->
            {[key |-> i, team |-> db.shots[i].team_id, match_id |-> db.shots[i].match_id, n |-> 1] :
                i \in {j \in 1..Len(db.shots) : ShotPasses(category, filter_type, db.shots[j])}}
      [] category = "cards" ->
            {[key |-> i, team |-> db.cards[i].team_id, match_id |-> db.cards[i].match_id, n |-> 1] :
                i \in 1..Len(db.cards)}
      [] OTHER ->
            {[key |-> <<r.match_id, r.player_id>>, team |-> r.team_id, match_id |-> r.match_id,
              n |-> r.fouls_committed] : r \in db.player_match_details}

\* the rows the against queries aggregate: shots and cards joined with their
\* match and counted for the other side, fouls_received of the team's own rows
AgainstTally(db, category, filter_type) ==
    CASE category \in {"shots", "headers"} ->
            {[key |-> x[1], team |-> Opponent(x[2], db.shots[x[1]].team_id),
              match_id |-> db.shots[x[1]].match_id, n |-> 1] :
                x \in {y \in (1..Len(db.shots)) \X db.matches :
                          /\ y[2].id = db.shots[y[1]].match_id
                          /\ ShotPasses(category, filter_type, db.shots[y[1]])}}
      [] category = "cards" ->
            {[key |-> x[1], team |-> Opponent(x[2], db.cards[x[1]].team_id),
              match_id |-> db.cards[x[1]].match_id, n |-> 1] :
                x \in {y \in (1..Len(db.cards)) \X db.matches :
                          y[2].id = db.cards[y[1]].match_id}}
      [] OTHER ->
            {[key |-> <<r.match_id, r.player_id>>, team |-> r.team_id, match_id |-> r.match_id,
              n |-> r.fouls_received] : r \in db.player_match_details}

\* structure(data): one entry per group of GROUP BY rank_team
GroupEntries(db, tally) ==
    {[id |-> t,
      name |-> Get(teams_map(db), t, "N/A"),
      total |-> SumOf({x \in tally : x.team = t}),
      pj |-> Cardinality({x.match_id : x \in {y \in tally : y.team = t}}),
      avg |-> Round2(SumOf({x \in tally : x.team = t}),
                     Cardinality({x.match_id : x \in {y \in tally : y.team = t}}))] :
        t \in {x.team : x \in tally}}

\* variant: ORDER BY ... ASC
SqlGeq_Ascending(sort_metric, a, b) ==
    IF sort_metric = "total" THEN a.total <= b.total
    ELSE a.total * b.pj <= b.total * a.pj

\* ORDER BY total DESC / ORDER BY avg DESC, avg being the unrounded quotient
SqlGeq(sort_metric, a, b) ==
    IF sort_metric = "total" THEN a.total >= b.total
    ELSE a.total * b.pj >= b.total * a.pj

\* key of results_made.sort(key=key, reverse=True)
PyGeq(order_by, a, b) ==
    IF order_by = "total" THEN a.total >= b.total ELSE a.avg >= b.avg

\* the lists a query may return for the rows S: ORDER BY sort_metric DESC
SortedSql(S, sort_metric) ==
    {sq \in OrdersOf(S) : \A i, j \in DOMAIN sq : i < j => SqlGeq(sort_metric, sq[i], sq[j])}

\* the lists sort(key=key, reverse=True) may leave for the entries S
SortedPy(S, order_by) ==
    {sq \in OrdersOf(S) : \A i, j \in DOMAIN sq : i < j => PyGeq(order_by, sq[i], sq[j])}

\* variant: the window is the last matches of the league, whoever played them
Windows_League(db, tid, limit) ==
    LET F == {r \in db.matches : r.finished}
        k == IF limit < Cardinality(F) THEN limit ELSE Cardinality(F)
    IN  {{r.id : r \in W} :
            W \in {V \in SUBSET F : /\ Cardinality(V) = k
                                     /\ \A a \in V, b \in F \ V : a.date >= b.date}}

\* SELECT id FROM matches WHERE (id_home_team = ? OR id_away_team = ?)
\* AND finished = 1 ORDER BY date DESC LIMIT ?
Windows(db, tid, limit) ==
    LET F == {r \in db.matches : (r.id_home_team = tid \/ r.id_away_team = tid) /\ r.finished}
        k == IF limit < Cardinality(F) THEN limit ELSE Cardinality(F)
    IN  {{r.id : r \in W} :
            W \in {V \in SUBSET F : /\ Cardinality(V) = k
                                     /\ \A a \in V, b \in F \ V : a.date >= b.date}}

\* the entry the loop appends for team tid, window being its match_ids
WindowEntry(db, tid, window, tally) ==
    LET pj == Cardinality(window)
        total == SumOf({x \in tally : x.team = tid /\ x.match_id \in window})
    IN  IF pj = 0
        THEN [id |-> tid, name |-> Get(teams_map(db), tid, "N/A"), total |-> 0, pj |-> 0, avg |-> 0]
        ELSE [id |-> tid, name |-> Get(teams_map(db), tid, "N/A"), total |-> total, pj |-> pj,
              avg |-> Round2(total, pj)]

get_team_stats_core(db, category, filter_type, order_by, limit) ==
    IF limit = 0
    THEN {[made |-> md, against |-> ag] :
            md \in SortedSql(GroupEntries(db, MadeTally(db, category, filter_type)), order_by),
            ag \in SortedSql(GroupEntries(db, AgainstTally(db, category, filter_type)), order_by)}
    ELSE LET team_ids == DOMAIN teams_map(db)
         IN  UNION {
               {[made |-> md, against |-> ag] :
                  md \in SortedPy({WindowEntry(db, tid, w[tid], MadeTally(db, category, filter_type)) :
                                        tid \in team_ids}, order_by),
                  ag \in SortedPy({WindowEntry(db, tid, w[tid], AgainstTally(db, category, filter_type)) :
                                        tid \in team_ids}, order_by)} :
               w \in {v \in [team_ids -> SUBSET {r.id : r \in db.matches}] :
                         \A tid \in team_ids : v[tid] \in Windows(db, tid, limit)}}

\* variant: teams with equal totals share a rank
RankDictOf_Shared(lst) ==
    [id \in {lst[i].id : i \in 1..Len(lst)} |->
        CHOOSE i \in 1..Len(lst) :
            /\ lst[i].total = (CHOOSE e \in {lst[j] : j \in 1..Len(lst)} : e.id = id).total
            /\ \A j \in 1..Len(lst) : j < i =>
                  lst[j].total # (CHOOSE e \in {lst[k] : k \in 1..Len(lst)} : e.id = id).total]

\* {item['id']: i + 1 for i, item in enumerate(lst)}
RankDictOf(lst) ==
    [id \in {lst[i].id : i \in 1..Len(lst)} |->
        CHOOSE i \in 1..Len(lst) : lst[i].id = id /\ \A j \in 1..Len(lst) : lst[j].id = id => j <= i]

get_rankings_from_stats(db, category, filter_type, order_by) ==
    {[made_list |-> r.made, against_list |-> r.against,
      rank_made |-> RankDictOf(r.made), rank_against |-> RankDictOf(r.against)] :
        r \in get_team_stats_core(db, category, filter_type, order_by, 0)}

\* SUM() over no row is NULL, which ORDER BY ... DESC puts last
NullSum == 0 - 1

\* the finished matches a referee (None: no referee recorded) had
RefereeMatches(db, referee) ==
    {r.id : r \in {q \in db.matches : q.finished /\ q.referee = referee}}

\* COUNT(c.card_id) of the group of a referee
RefereeCards(db, referee) ==
    Cardinality({i \in 1..Len(db.cards) : db.cards[i].match_id \in RefereeMatches(db, referee)})

\* SUM(pmd.fouls_committed) of the group of a referee
RefereeFouls(db, referee) ==
    LET rows == {r \in db.player_match_details : r.match_id \in RefereeMatches(db, referee)}
    IN  IF rows = {} THEN NullSum
        ELSE SumOf({[key |-> <<r.match_id, r.player_id>>, n |-> r.fouls_committed] : r \in rows})

\* the groups of GROUP BY m.referee WHERE m.finished = 1
RefereeGroups(db) == {r.referee : r \in {q \in db.matches : q.finished}}

\* {r['referee']: i + 1 for i, r in enumerate(rows)}
RefereeDictOf(lst) ==
    [ref \in {lst[i].referee : i \in 1..Len(lst)} |->
        CHOOSE i \in 1..Len(lst) : lst[i].referee = ref]

get_referee_rankings(db) ==
    {[cards |-> RefereeDictOf(rc), fouls |-> RefereeDictOf(rf)] :
        rc \in SortedSql({[referee |-> ref, total |-> RefereeCards(db, ref)] : ref \in RefereeGroups(db)}, "total"),
        rf \in SortedSql({[referee |-> ref, total |-> RefereeFouls(db, ref)] : ref \in RefereeGroups(db)}, "total")}

\* one row of the detailed tops; round(None, 2) raises when the total is NULL
RefereeTop(db, ref, total) ==
    [name |-> ref, total |-> total, pj |-> Cardinality(RefereeMatches(db, ref)),
     avg |-> Round2(total, Cardinality(RefereeMatches(db, ref)))]

get_referee_detailed_tops(db) ==
    LET named == RefereeGroups(db) \ {None}
    IN  IF \E ref \in named : RefereeFouls(db, ref) = NullSum
        THEN {[raised |-> TRUE, cards |-> <<>>, fouls |-> <<>>]}
        ELSE {[raised |-> FALSE, cards |-> tc, fouls |-> tf] :
                tc \in SortedSql({RefereeTop(db, ref, RefereeCards(db, ref)) : ref \in named}, "total"),
                tf \in SortedSql({RefereeTop(db, ref, RefereeFouls(db, ref)) : ref \in named}, "total")}

\* the rows the per-team query of a player ranking groups by player_id
PlayerTally(db, rank_type, filter_type) ==
    CASE rank_type \in {"shots", "headers"} ->
            {[key |-> i, team |-> db.shots[i].team_id, player |-> db.shots[i].player_id,
              match_id |-> db.shots[i].match_id, n |-> 1] :
                i \in {j \in 1..Len(db.shots) : ShotPasses(rank_type, filter_type, db.shots[j])}}
      [] rank_type = "cards" ->
            {[key |-> i, team |-> db.cards[i].team_id, player |-> db.cards[i].player_id,
              match_id |-> db.cards[i].match_id, n |-> 1] : i \in 1..Len(db.cards)}
      [] rank_type = "fouls" ->
            {[key |-> <<r.match_id, r.player_id>>, team |-> r.team_id, player |-> r.player_id,
              match_id |-> r.match_id, n |-> r.fouls_committed] : r \in db.player_match_details}
      [] rank_type = "fouls_rec" ->
            {[key |-> <<r.match_id, r.player_id>>, team |-> r.team_id, player |-> r.player_id,
              match_id |-> r.match_id, n |-> r.fouls_received] : r \in db.player_match_details}
      [] OTHER -> {}

\* SELECT DISTINCT id_home_team ... UNION SELECT DISTINCT id_away_team ...
team_ids(db) == {r.id_home_team : r \in db.matches} \cup {r.id_away_team : r \in db.matches}

\* the appearances the pj and minutes_played queries read for player pid of
\* team tid: rows of the window with minutes_played > 0
Appearances(db, pid, tid, window) ==
    {r \in db.player_match_details :
        /\ r.player_id = pid /\ r.team_id = tid
        /\ r.match_id \in window /\ r.minutes_played > 0}

\* the teams whose query returns a row for player pid, w[tid] being the
\* match_ids of team tid
TeamsOf(tally, pid, w) ==
    {tid \in DOMAIN w : \E x \in tally : x.player = pid /\ x.team = tid /\ x.match_id \in w[tid]}

\* round((total / minutes_played) * 90, 2) in hundredths
Per90(total, minutes_played) ==
    IF minutes_played > 0
    THEN (2 * 9000 * total + minutes_played) \div (2 * minutes_played)
    ELSE 0

\* team_name_row: the side of the player in the latest match he has a row for
TeamNames(db, pid) ==
    {IF x[1].team_id = x[2].id_home_team THEN x[2].home_team ELSE x[2].away_team :
        x \in {y \in db.player_match_details \X db.matches :
                  /\ y[1].player_id = pid /\ y[2].id = y[1].match_id
                  /\ \A z \in db.player_match_details \X db.matches :
                        (z[1].player_id = pid /\ z[2].id = z[1].match_id)
                            => z[2].date <= y[2].date}}

\* player_totals[pid] after the loop over the teams: the rows of every team
\* the player has events for are added up
player_totals(db, tally, pid, w) ==
    [id |-> pid,
     total |-> SumOf({[key |-> tid, n |-> SumOf({x \in tally : /\ x.player = pid /\ x.team = tid
                                                               /\ x.match_id \in w[tid]})] :
                        tid \in TeamsOf(tally, pid, w)}),
     pj |-> SumOf({[key |-> tid, n |-> Cardinality(Appearances(db, pid, tid, w[tid]))] :
                        tid \in TeamsOf(tally, pid, w)}),
     minutes_played |->
         SumOf({[key |-> tid,
                 n |-> SumOf({[key |-> r.match_id, n |-> r.minutes_played] :
                                 r \in Appearances(db, pid, tid, w[tid])})] :
                        tid \in TeamsOf(tally, pid, w)})]

\* the entries out may hold for player pid: t_id comes from the first team
\* of the loop that had a row for the player, and the loop order is open
PlayerEntries(db, tally, pid, w) ==
    {[id |-> pid, t_id |-> t, t_name |-> nm,
      total |-> player_totals(db, tally, pid, w).total,
      pj |-> player_totals(db, tally, pid, w).pj,
      minutes_played |-> player_totals(db, tally, pid, w).minutes_played,
      avg |-> Per90(player_totals(db, tally, pid, w).total,
                    player_totals(db, tally, pid, w).minutes_played)] :
        t \in TeamsOf(tally, pid, w), nm \in TeamNames(db, pid)}

\* the players out has an entry for: "if v['pj'] == 0: continue"
Ranked(db, tally, w) ==
    {pid \in {x.player : x \in tally} :
        TeamsOf(tally, pid, w) # {} /\ player_totals(db, tally, pid, w).pj # 0}

\* key of out.sort(key=..., reverse=True)
PlayerGeq(order_by, a, b) ==
    IF order_by = "total" THEN a.total >= b.total
    ELSE \/ (a.minutes_played >= 150) /\ ~(b.minutes_played >= 150)
         \/ /\ (a.minutes_played >= 150) = (b.minutes_played >= 150)
            /\ a.avg >= b.avg

\* the lists out.sort may leave for the entries S
SortedPlayers(S, order_by) ==
    {sq \in OrdersOf(S) : \A i, j \in DOMAIN sq : i < j => PlayerGeq(order_by, sq[i], sq[j])}

\* one result per choice of the windows (w[tid] is the match_ids of team tid;
\* a team without finished match has the empty window and is skipped), of
\* t_id and t_name, and of the order of equal keys
get_league_player_stats_last_matches(db, rank_type, filter_type, order_by, match_limit) ==
    LET tally == PlayerTally(db, rank_type, filter_type)
    IN  UNION {
          UNION {SortedPlayers({f[pid] : pid \in Ranked(db, tally, w)}, order_by) :
                    f \in {g \in [Ranked(db, tally, w) ->
                                    UNION {PlayerEntries(db, tally, pid, w) :
                                              pid \in Ranked(db, tally, w)}] :
                              \A pid \in Ranked(db, tally, w) :
                                  g[pid] \in PlayerEntries(db, tally, pid, w)}} :
          w \in {v \in [team_ids(db) -> SUBSET {r.id : r \in db.matches}] :
                    \A tid \in team_ids(db) : v[tid] \in Windows(db, tid, match_limit)}}

\* no leaderboard was asked for yet
NoStatsQuery == [page |-> None, category |-> None, filter_type |-> None,
                 order_by |-> None, limit |-> 0]

\* made, against: the two lists returned; rank_made, rank_against: the dicts
\* get_rankings_from_stats built from them
NoStats == [made |-> <<>>, against |-> <<>>, rank_made |-> <<>>, rank_against |-> <<>>,
            asked |-> FALSE]

NoRefStats == [rankings |-> [cards |-> <<>>, fouls |-> <<>>],
               tops |-> [raised |-> FALSE, cards |-> <<>>, fouls |-> <<>>],
               asked |-> FALSE]

NoPlayerRanking == [out |-> <<>>, asked |-> FALSE]

---------------------------------------------------------------------------
(* Actions *)

DbNow == [matches |-> matches, player_match_details |-> player_match_details,
          shots |-> shots, cards |-> cards]

EmptyDb == [matches |-> NoRows, player_match_details |-> NoRows, shots |-> <<>>, cards |-> <<>>]

\* no load_match_directly calls run side by side
NoConcurrent == [before |-> EmptyDb, calls |-> <<>>]

\* one call load_match_directly(m, conn) whose fetch returns P; extra are
\* the lines the caller logs after it
Ingest(m, P, o, extra) ==
    /\ matches' = o.db.matches
    /\ player_match_details' = o.db.player_match_details
    /\ shots' = o.db.shots
    /\ cards' = o.db.cards
    /\ log' = log \o o.lines \o extra
    /\ fetches' = fetches + 1
    /\ last' = [match_id |-> m, payload |-> P, lines |-> o.lines, raised |-> o.raised]

\* load_match_directly run on its own for one match id (an explicit re-run)
Load(m, P) ==
    /\ ~running
    /\ fetches < MaxFetch
    /\ \E o \in {load_match_directly(m, P, DbNow)} : Ingest(m, P, o, <<>>)
    /\ UNCHANGED <<batchvars, predvars, statvars, concurrent>>

\* the log ends with a run that found nothing to ingest: the next run would
\* repeat it line by line
IdleRun(lg) ==
    /\ Len(lg) >= 2
    /\ lg[Len(lg)].msg = "end"
    /\ lg[Len(lg) - 1].msg \in {"uptodate", "critical"}

\* get_automated_updates up to the start of its for loop
RunStart ==
    /\ ~running
    /\ fetches < MaxFetch
    /\ ~IdleRun(log)
    /\ \/ \E r \in LastFinished(matches) :
             /\ ~IsInt(r.gameweek)
             /\ log' = log \o <<Line("ERROR", None, "critical"), Line("INFO", None, "end")>>
             /\ UNCHANGED batchvars
       \/ \E current_gw \in 1..Len(NumStr) :
             /\ \/ LastFinished(matches) = {} /\ current_gw = 1
                \/ \E r \in LastFinished(matches) : IsInt(r.gameweek) /\ current_gw = IntOf(r.gameweek)
             /\ IF PendingIds(matches, current_gw) = {}
                THEN /\ log' = log \o <<Line("INFO", None, "begin"), Line("INFO", None, "uptodate"),
                                        Line("INFO", None, "end")>>
                     /\ UNCHANGED batchvars
                ELSE /\ log' = log \o <<Line("INFO", None, "begin")>>
                     /\ running' = TRUE
                     /\ match_ids' \in OrdersOf(PendingIds(matches, current_gw))
    /\ UNCHANGED <<dbvars, fetches, last, predvars, statvars, concurrent>>

\* one iteration of the for loop.  An exception leaving load_match_directly
\* would end the loop in the outer except; leaving the loop runs finally.
RunStep ==
    /\ running
    /\ fetches < MaxFetch
    /\ \E P \in Payloads[Head(match_ids)] :
       \E o \in {load_match_directly(Head(match_ids), P, DbNow)} :
          IF o.raised
          THEN /\ Ingest(Head(match_ids), P, o,
                         <<Line("ERROR", None, "critical"), Line("INFO", None, "end")>>)
               /\ match_ids' = <<>>
               /\ running' = FALSE
          ELSE /\ Ingest(Head(match_ids), P, o,
                         IF Len(match_ids) = 1 THEN <<Line("INFO", None, "end")>> ELSE <<>>)
               /\ match_ids' = Tail(match_ids)
               /\ running' = (Len(match_ids) > 1)
    /\ UNCHANGED <<predvars, statvars, concurrent>>

SeededMatches == {match_row(m, PendingPayload(m)) : m \in MatchIds}

\* the fixture list of a knockout stage published without round names
UnnamedRound ==
    {match_row(m, [PendingPayload(m) EXCEPT !.general.leagueRoundName = None]) : m \in MatchIds}

\* the tables as initialize_database creates them, empty or holding the
\* fixture list ingested before kickoff
Init ==
    /\ matches \in {NoRows, SeededMatches, UnnamedRound}
    /\ player_match_details = NoRows
    /\ shots = <<>>
    /\ cards = <<>>
    /\ log = <<>>
    /\ running = FALSE
    /\ match_ids = <<>>
    /\ fetches = 0
    /\ last = [match_id |-> None, payload |-> BarePayload("none"), lines |-> <<>>,
               raised |-> FALSE]
    /\ query = NoQuery
    /\ result = NoResult
    /\ stats_query = NoStatsQuery
    /\ team_stats = NoStats
    /\ ref_stats = NoRefStats
    /\ player_stats = NoPlayerRanking
    /\ concurrent = NoConcurrent

Next ==
    \/ \E m \in MatchIds : \E P \in Payloads[m] : Load(m, P)
    \/ RunStart
    \/ RunStep

Spec == Init /\ [][Next]_vars

\* the scheduler starts get_automated_updates again and again, and a run that
\* is inside its loop goes on to the next id; nobody is bound to call
\* load_match_directly by hand
SpecFair == Spec /\ WF_vars(RunStart) /\ WF_vars(RunStep)

---------------------------------------------------------------------------
(* The prediction engine on its own: every query is answered once *)

Predict ==
    /\ query # NoQuery
    /\ result = NoResult
    /\ result' = get_prediction_logic(query.home_id, query.away_id, query.category,
                                      query.referee, query.m_ranks, query.a_ranks,
                                      query.ref_ranks)
    /\ UNCHANGED <<dbvars, log, batchvars, fetches, last, query, statvars, concurrent>>

InitPred ==
    /\ matches = NoRows
    /\ player_match_details = NoRows
    /\ shots = <<>>
    /\ cards = <<>>
    /\ log = <<>>
    /\ running = FALSE
    /\ match_ids = <<>>
    /\ fetches = 0
    /\ last = [match_id |-> None, payload |-> BarePayload("none"), lines |-> <<>>,
               raised |-> FALSE]
    /\ \E c \in {"shots", "headers", "cards", "fouls"}, r \in {None, "", "r1"} :
       \E mh \in 0..MaxRank, mv \in {0, 1}, av \in 0..MaxRank, ah \in {0, 1} :
       \E rr \in 0..MaxRank :
          /\ IsQuery(c, r, rr)
          /\ query = Query(c, r, mh, mv, av, ah, rr)
    /\ result = NoResult
    /\ stats_query = NoStatsQuery
    /\ team_stats = NoStats
    /\ ref_stats = NoRefStats
    /\ player_stats = NoPlayerRanking
    /\ concurrent = NoConcurrent

NextPred == Predict

SpecPred == InitPred /\ [][NextPred]_vars

---------------------------------------------------------------------------
(* The leaderboards over a season: matches are ingested and one leaderboard *)
(* function, fixed at the start, is called again and again                  *)

\* the categories with the filters that act on them (filter_type is read for
\* shots only)
Filters ==
    {<<"shots", "all">>, <<"shots", "target">>, <<"shots", "long">>,
     <<"headers", "all">>, <<"cards", "all">>, <<"fouls", "all">>}

\* the calls observed: get_team_stats_core, get_rankings_from_stats, the two
\* referee functions, or the player ranking over the last matches
StatsQueries ==
    {[page |-> "teams", category |-> cf[1], filter_type |-> cf[2], order_by |-> o, limit |-> n] :
        cf \in Filters, o \in {"total", "avg"}, n \in 0..MaxLimit}
    \cup
    {[page |-> "rankings", category |-> cf[1], filter_type |-> cf[2], order_by |-> o, limit |-> 0] :
        cf \in Filters, o \in {"total", "avg"}}
    \cup
    {[page |-> "referees", category |-> None, filter_type |-> None, order_by |-> None,
      limit |-> 0]}
    \cup
    {[page |-> "players", category |-> cf[1], filter_type |-> cf[2], order_by |-> "total",
      limit |-> n] :
        cf \in Filters \cup {<<"fouls_rec", "all">>}, n \in 1..MaxLimit}

\* get_team_stats_core(category, filter_type, order_by, limit)
TeamStats ==
    /\ stats_query.page = "teams"
    /\ team_stats' \in {[made |-> r.made, against |-> r.against,
                    rank_made |-> <<>>, rank_against |-> <<>>, asked |-> TRUE] :
                      r \in get_team_stats_core(DbNow, stats_query.category,
                                                stats_query.filter_type, stats_query.order_by,
                                                stats_query.limit)}
    /\ UNCHANGED <<dbvars, log, batchvars, fetches, last, predvars, stats_query, ref_stats, player_stats,
                   concurrent>>

\* get_rankings_from_stats(category, filter_type, order_by)
Rankings ==
    /\ stats_query.page = "rankings"
    /\ team_stats' \in {[made |-> r.made_list, against |-> r.against_list,
                    rank_made |-> r.rank_made, rank_against |-> r.rank_against,
                    asked |-> TRUE] :
                      r \in get_rankings_from_stats(DbNow, stats_query.category,
                                                    stats_query.filter_type,
                                                    stats_query.order_by)}
    /\ UNCHANGED <<dbvars, log, batchvars, fetches, last, predvars, stats_query, ref_stats, player_stats,
                   concurrent>>

\* get_referee_rankings() and get_referee_detailed_tops()
RefereeStats ==
    /\ stats_query.page = "referees"
    /\ ref_stats' \in {[rankings |-> rk, tops |-> tp, asked |-> TRUE] :
                          rk \in get_referee_rankings(DbNow),
                          tp \in get_referee_detailed_tops(DbNow)}
    /\ UNCHANGED <<dbvars, log, batchvars, fetches, last, predvars, stats_query, team_stats, player_stats,
                   concurrent>>

\* api_player_stats with limit_matches:
\* get_league_player_stats_last_matches(rank_type, filter_type, match_limit=limit_matches)
PlayerStats ==
    /\ stats_query.page = "players"
    /\ player_stats' \in {[out |-> lst, asked |-> TRUE] :
                            lst \in get_league_player_stats_last_matches(
                                        DbNow, stats_query.category, stats_query.filter_type,
                                        stats_query.order_by, stats_query.limit)}
    /\ UNCHANGED <<dbvars, log, batchvars, fetches, last, predvars, stats_query, team_stats,
                   ref_stats, concurrent>>

\* the fixture list before kickoff, and after the first match was played
SeasonStart ==
    [matches |-> {match_row(m, PendingPayload(m)) : m \in SeasonIds},
     player_match_details |-> NoRows, shots |-> <<>>, cards |-> <<>>]

SeasonAfterFirst ==
    load_match_directly("m1", [FullPayload("m1") EXCEPT
                                  !.playerStats = [NoPlayerStats EXCEPT !["p1"] = NumStat]],
                        SeasonStart).db

InitStats ==
    /\ \E db \in {SeasonStart, SeasonAfterFirst} :
          /\ matches = db.matches
          /\ player_match_details = db.player_match_details
          /\ shots = db.shots
          /\ cards = db.cards
    /\ log = <<>>
    /\ running = FALSE
    /\ match_ids = <<>>
    /\ fetches = 0
    /\ last = [match_id |-> None, payload |-> BarePayload("none"), lines |-> <<>>,
               raised |-> FALSE]
    /\ query = NoQuery
    /\ result = NoResult
    /\ stats_query \in StatsQueries
    /\ team_stats = NoStats
    /\ ref_stats = NoRefStats
    /\ player_stats = NoPlayerRanking
    /\ concurrent = NoConcurrent

NextStats ==
    \/ \E m \in SeasonIds : \E P \in SeasonPayloads[m] : Load(m, P)
    \/ TeamStats
    \/ Rankings
    \/ RefereeStats
    \/ PlayerStats

SpecStats == InitStats /\ [][NextStats]_vars

---------------------------------------------------------------------------
(* Two load_match_directly calls side by side, each in a process with a     *)
(* connection of its own.  A step is one statement that reaches the        *)
(* database (SQLite runs the write transactions of two connections one     *)
(* after the other; a writer that finds the database locked waits) or the  *)
(* fetch.                                                                  *)

Procs == {"a", "b"}

\* the match id each process was called with
MatchOf(p) == IF p = "a" THEN "m1" ELSE "m2"

\* m1 reported in full: the tables when m1 was ingested before
AfterFirst == load_match_directly("m1", FullPayload("m1"), EmptyDb).db

\* a report that lists the same player as starter and as substitute
DoubledPayload(m) ==
    [FullPayload(m) EXCEPT !.lineup.homeTeam.subs = <<PlayerOf(Fixture(m).homeTeam.id)>>]

\* the answers of the upstream source in the side-by-side runs
ConcurrentPayloads(m) ==
    {BarePayload("raise"), BarePayload("empty"), BarePayload("nullsection"),
     PendingPayload(m), FullPayload(m), DoubledPayload(m),
     [FullPayload(m) EXCEPT !.lineup = NullLineup],
     [FullPayload(m) EXCEPT !.shots = NullList],
     [FullPayload(m) EXCEPT !.events = NullList]}

Call(p, pc, P) == [match_id |-> MatchOf(p), pc |-> pc, payload |-> P]

At(p, pc) == p \in DOMAIN concurrent.calls /\ concurrent.calls[p].pc = pc

\* process p moves to position pc
Goto(p, pc) ==
    concurrent' = [concurrent EXCEPT !.calls[p].pc = pc]

\* response = fm.request_match_details(match_id).json() and the .get() calls
\* up to match_row; nothing reaches the database
Fetch(p) ==
    /\ At(p, "fetch")
    /\ \E P \in ConcurrentPayloads(MatchOf(p)) :
          /\ concurrent' = [concurrent EXCEPT
                               !.calls[p] = Call(p, IF P.shape = "ok" THEN "matches" ELSE "done", P)]
          /\ log' = log \o (CASE P.shape = "ok"    -> <<>>
                               [] P.shape = "empty" -> <<Line("WARNING", MatchOf(p), "empty")>>
                               [] OTHER             -> <<Line("ERROR", MatchOf(p), "error")>>)
    /\ fetches' = fetches + 1
    /\ UNCHANGED <<dbvars, batchvars, last, predvars, statvars>>

\* step 1: INSERT OR REPLACE INTO matches, commit, and the early return
InsertMatch(p) ==
    /\ At(p, "matches")
    /\ \E c \in {concurrent.calls[p]} :
          /\ matches' = Upsert(matches, match_row(c.match_id, c.payload))
          /\ IF ~c.payload.finished
             THEN /\ log' = log \o <<Line("INFO", c.match_id, "pending")>>
                  /\ Goto(p, "done")
             ELSE /\ log' = log \o <<Line("INFO", c.match_id, "start")>>
                  /\ Goto(p, "players")
    /\ UNCHANGED <<player_match_details, shots, cards, batchvars, fetches, last, predvars,
                   statvars>>

\* step 2: player_rows and to_sql("player_match_details")
InsertPlayers(p) ==
    /\ At(p, "players")
    /\ \E c \in {concurrent.calls[p]} :
          IF PlayerRowsRaise(c.payload)
          THEN /\ log' = log \o <<Line("ERROR", c.match_id, "error")>>
               /\ Goto(p, "done")
               /\ UNCHANGED player_match_details
          ELSE \E rows \in {player_rows(c.match_id, c.payload)} :
                  IF rows = <<>>
                  THEN /\ Goto(p, "shots")
                       /\ UNCHANGED <<player_match_details, log>>
                  ELSE IF PrimaryKeyConflict(player_match_details, rows)
                  THEN /\ log' = log \o <<Line("ERROR", c.match_id, "error")>>
                       /\ Goto(p, "done")
                       /\ UNCHANGED player_match_details
                  ELSE /\ player_match_details' = player_match_details \cup SeqToSet(rows)
                       /\ log' = log \o <<Line("INFO", c.match_id, "players")>>
                       /\ Goto(p, "shots")
    /\ UNCHANGED <<matches, shots, cards, batchvars, fetches, last, predvars, statvars>>

\* step 3: shot_rows and to_sql("shots")
InsertShots(p) ==
    /\ At(p, "shots")
    /\ \E c \in {concurrent.calls[p]} :
          IF c.payload.shots.tag = "null"
          THEN /\ log' = log \o <<Line("ERROR", c.match_id, "error")>>
               /\ Goto(p, "done")
               /\ UNCHANGED shots
          ELSE \E rows \in {shot_rows(c.match_id, c.payload)} :
                  /\ shots' = shots \o rows
                  /\ log' = IF rows = <<>> THEN log
                            ELSE log \o <<Line("INFO", c.match_id, "shots")>>
                  /\ Goto(p, "cards")
    /\ UNCHANGED <<matches, player_match_details, cards, batchvars, fetches, last, predvars,
                   statvars>>

\* step 4: card_rows, to_sql("cards") and the closing log line
InsertCards(p) ==
    /\ At(p, "cards")
    /\ \E c \in {concurrent.calls[p]} :
          IF c.payload.events.tag = "null"
          THEN /\ log' = log \o <<Line("ERROR", c.match_id, "error")>>
               /\ UNCHANGED cards
          ELSE \E rows \in {card_rows(c.match_id, c.payload)} :
                  /\ cards' = cards \o rows
                  /\ log' = log \o (IF rows = <<>> THEN <<>>
                                    ELSE <<Line("INFO", c.match_id, "cards")>>)
                                \o <<Line("INFO", c.match_id, "complete")>>
    /\ Goto(p, "done")
    /\ UNCHANGED <<matches, player_match_details, shots, batchvars, fetches, last, predvars,
                   statvars>>

InitConcurrent ==
    /\ \E db \in {EmptyDb, SeasonStart, AfterFirst} :
          /\ matches = db.matches
          /\ player_match_details = db.player_match_details
          /\ shots = db.shots
          /\ cards = db.cards
          /\ concurrent = [before |-> db,
                           calls |-> [p \in Procs |-> Call(p, "fetch", BarePayload("none"))]]
    /\ log = <<>>
    /\ running = FALSE
    /\ match_ids = <<>>
    /\ fetches = 0
    /\ last = [match_id |-> None, payload |-> BarePayload("none"), lines |-> <<>>,
               raised |-> FALSE]
    /\ query = NoQuery
    /\ result = NoResult
    /\ stats_query = NoStatsQuery
    /\ team_stats = NoStats
    /\ ref_stats = NoRefStats
    /\ player_stats = NoPlayerRanking

NextConcurrent ==
    \E p \in Procs :
        \/ Fetch(p)
        \/ InsertMatch(p)
        \/ InsertPlayers(p)
        \/ InsertShots(p)
        \/ InsertCards(p)

SpecConcurrent == InitConcurrent /\ [][NextConcurrent]_vars

---------------------------------------------------------------------------
(* Properties of the ingestion normalizer *)

\* the step is a call of load_match_directly
IsCall == fetches' = fetches + 1

NPlayers(table, m) == Cardinality(RowsOf(table, m))

NRows(table, m) == Len(SeqRowsOf(table, m))

\* number of players a lineup lists as starters and as substitutes
NStarters(P) == Len(P.lineup.homeTeam.starters) + Len(P.lineup.awayTeam.starters)
NSubs(P)     == Len(P.lineup.homeTeam.subs) + Len(P.lineup.awayTeam.subs)

\* no player is listed twice
DistinctPlayers(P) == Cardinality(Listed(P)) = NStarters(P) + NSubs(P)

\* every stat value of a listed player converts to an integer
StatsConvert(P) == \A pid \in Listed(P) : P.playerStats[pid].tag # "bad"

\* a report in which no section is null, no player is listed twice and
\* every stat value is a number
WellFormed(P) ==
    /\ P.shape = "ok"
    /\ P.lineup.tag # "null" /\ P.shots.tag # "null" /\ P.events.tag # "null"
    /\ DistinctPlayers(P)
    /\ StatsConvert(P)

\* the call logged an error
Failed(call) == \E i \in 1..Len(call.lines) : call.lines[i].level = "ERROR"

\* C1: a second ingestion of the same finished payload for the same match id,
\* directly after the first, leaves the number of player_match_details, shots
\* and cards rows of that match as the first ingestion left them.
C1_Idempotent ==
    [][(/\ IsCall
        /\ last'.match_id = last.match_id
        /\ last'.payload = last.payload
        /\ last.payload.shape = "ok"
        /\ last.payload.finished)
       => (/\ NPlayers(player_match_details', last.match_id)
                = NPlayers(player_match_details, last.match_id)
           /\ NRows(shots', last.match_id) = NRows(shots, last.match_id)
           /\ NRows(cards', last.match_id) = NRows(cards, last.match_id))]_vars

\* C2: when a match already stored as finished is ingested again with a
\* well-formed finished payload, its player_match_details, shots and cards rows
\* are afterwards exactly the rows derived from that payload.
C2_Replaced ==
    [][(/\ IsCall
        /\ WellFormed(last'.payload)
        /\ last'.payload.finished
        /\ \E r \in matches : r.id = last'.match_id /\ r.finished)
       => (/\ RowsOf(player_match_details', last'.match_id)
                = SeqToSet(player_rows(last'.match_id, last'.payload))
           /\ SeqRowsOf(shots', last'.match_id) = shot_rows(last'.match_id, last'.payload)
           /\ SeqRowsOf(cards', last'.match_id) = card_rows(last'.match_id, last'.payload))]_vars

\* a response that is empty, has a null section, lacks the sections, carries
\* an unconvertible stat value, or a fetch that raises
Malformed(P) ==
    \/ P.shape \in {"raise", "empty", "nullsection"}
    \/ P.general = NoGeneral
    \/ P.lineup.tag = "null" \/ P.shots.tag = "null" \/ P.events.tag = "null"
    \/ ~StatsConvert(P)

\* the call returned normally and logged one warning or error for its match
ReturnedWithLog ==
    /\ ~last'.raised
    /\ Len(last'.lines) = 1
    /\ last'.lines[1].level \in {"WARNING", "ERROR"}
    /\ last'.lines[1].match_id = last'.match_id
    /\ Len(log') > Len(log)
    /\ log'[Len(log) + 1] = last'.lines[1]

\* a running batch goes on with the ids after the one just ingested
BatchGoesOn ==
    running => /\ match_ids' = Tail(match_ids)
               /\ running' = (Tail(match_ids) # <<>>)

C4_PendingOnlyUpserts ==
    [][(IsCall /\ last'.payload.shape = "ok" /\ ~last'.payload.finished)
       => (/\ Cardinality({r \in matches' : r.id = last'.match_id}) = 1
           /\ \A r \in matches' : r.id = last'.match_id => ~r.finished
           /\ {r \in matches' : r.id # last'.match_id}
                = {r \in matches : r.id # last'.match_id}
           /\ UNCHANGED <<player_match_details, shots, cards>>)]_vars

\* an unfinished payload that carries a lineup, a shot and a card was
\* ingested and the match has a pending row and no child rows
C4_Witness ==
    /\ last.payload.shape = "ok"
    /\ ~last.payload.finished
    /\ Listed(last.payload) # {}
    /\ last.payload.shots.val # <<>>
    /\ card_rows(last.match_id, last.payload) # <<>>
    /\ \E r \in matches : r.id = last.match_id /\ ~r.finished
    /\ RowsOf(player_match_details, last.match_id) = {}
    /\ SeqRowsOf(shots, last.match_id) = <<>>
    /\ SeqRowsOf(cards, last.match_id) = <<>>

\* C5: when a step after the matches INSERT OR REPLACE of a finished payload
\* fails, the call returns normally, the error is in the log, and the matches
\* row of this call (finished = true) is in the table afterwards.
C5_UpsertSurvivesFailure ==
    (last.payload.shape = "ok" /\ last.payload.finished /\ Failed(last))
    => (/\ ~last.raised
        /\ \E i \in 1..Len(log) : log[i] = Line("ERROR", last.match_id, "error")
        /\ \E r \in matches : /\ r.id = last.match_id
                              /\ r.finished
                              /\ r.id_home_team = last.payload.general.homeTeam.id
                              /\ r.gameweek = convert_round_to_number(
                                                  last.payload.general.leagueRoundName))

\* a finished payload failed after the upsert and its matches row is stored
C5_Witness ==
    /\ last.payload.shape = "ok"
    /\ last.payload.finished
    /\ Failed(last)
    /\ \E r \in matches : r.id = last.match_id /\ r.finished

\* the payload lacks exactly one of lineup, shot list and card events
LacksOneSection(P) ==
    Cardinality({sec \in {"lineup", "shots", "events"} :
            (sec = "lineup" /\ P.lineup.tag = "missing")
            \/ (sec = "shots" /\ P.shots.tag = "missing")
            \/ (sec = "events" /\ P.events.tag = "missing")}) = 1

\* C6: an ingestion of a well-formed finished payload that lacks one of the
\* three sections writes no row of that category and every row of the other
\* two categories that the payload contains.
C6_SectionsIndependent ==
    [][(/\ IsCall
        /\ WellFormed(last'.payload)
        /\ last'.payload.finished
        /\ LacksOneSection(last'.payload))
       => (/\ player_match_details'
                = player_match_details \cup SeqToSet(player_rows(last'.match_id, last'.payload))
           /\ SeqToSet(player_rows(last'.match_id, last'.payload)) \cap player_match_details = {}
           /\ shots' = shots \o shot_rows(last'.match_id, last'.payload)
           /\ cards' = cards \o card_rows(last'.match_id, last'.payload))]_vars

CardsAskedFor(m, P) ==
    LET evs == SelectSeq(P.events.val,
                         LAMBDA ev : ev.card # None /\ ev.localizedKey # "not_on_pitch")
    IN  [i \in 1..Len(evs) |->
            [match_id |-> m, player_id |-> evs[i].player,
             team_id |-> IF evs[i].isHome THEN P.general.homeTeam.id
                         ELSE P.general.awayTeam.id,
             card_type |-> evs[i].card]]

\* C8: every ingestion of a well-formed finished payload adds to cards exactly
\* one row for each event that carries a card not tagged not_on_pitch, with the
\* team id resolved from isHome, and none for the other events.
C8_CardFilter ==
    [][(IsCall /\ WellFormed(last'.payload) /\ last'.payload.finished)
       => cards' = cards \o CardsAskedFor(last'.match_id, last'.payload)]_vars

---------------------------------------------------------------------------
(* Properties of the prediction engine *)

Answered == result # NoResult

\* the referee term applies to the query
WithReferee == query.referee \notin {None, ""} /\ query.category \in {"cards", "fouls"}

\* the ranks of the query lie in 1..L
RanksInLeague == \A r \in {result.rm_h, result.ra_h, result.rm_v, result.ra_v} : r \in 1..L

\* n / d rounded to the nearest integer, for n >= 0
Rounded(n, d) == (2 * n + d) \div (2 * d)

FiveTerms ==
    (L - result.rm_h) + (L - result.ra_h) + (L - result.rm_v) + (L - result.ra_v)
      + (L - result.ref_rank)

\* C11: with a referee term and all five ranks in 1..L the combined figure is
\* 100 * (sum of the five terms) / (5L - 5), truncated or rounded to an integer;
\* it never exceeds 100 and is 100 when all five ranks are 1.
C11_CombinedOverFiveL ==
    (Answered /\ WithReferee /\ RanksInLeague /\ result.ref_rank \in 1..L)
    => (/\ result.gen \in {(100 * FiveTerms) \div (5 * L - 5),
                           Rounded(100 * FiveTerms, 5 * L - 5)}
        /\ result.gen <= 100
        /\ (FiveTerms = 5 * L - 5) => result.gen = 100)

\* C12: whatever the ranks of a query are (beyond position L or the fallback
\* included), the home and the away score lie in 0..100.
C12_SideScoresBounded ==
    Answered => (result.h \in 0..100 /\ result.v \in 0..100)

\* C13: without a referee term and with the four team ranks all 1, both side
\* scores are 100 and the combined score (h + v) // 2 is 100.
C13_BestCase ==
    (/\ Answered
     /\ ~WithReferee
     /\ result.rm_h = 1 /\ result.ra_h = 1 /\ result.rm_v = 1 /\ result.ra_v = 1)
    => (result.h = 100 /\ result.v = 100 /\ result.gen = 100)

\* a query without referee term whose four team ranks are 1 was answered
\* with 100, 100 and 100
C13_Witness ==
    /\ Answered
    /\ ~WithReferee
    /\ query.m_ranks = RankDict("t1", 1, "t2", 1)
    /\ query.a_ranks = RankDict("t2", 1, "t1", 1)
    /\ result.h = 100 /\ result.v = 100 /\ result.gen = 100

\* the rank the result reports for an id: its position in the ranking, 15
\* when the ranking does not hold it
Reported(ranks, id) == IF id \in DOMAIN ranks THEN ranks[id] ELSE 15

\* 100 * n / d truncated toward zero
Truncated(n, d) == IF n >= 0 THEN (100 * n) \div d ELSE 0 - ((100 * (0 - n)) \div d)

\* C20: a team the made or the against ranking does not hold, and a referee
\* the referee ranking does not hold, is reported with rank 15 and enters the
\* side scores with rank 15, whatever positions the rankings hold otherwise.
C20_FallbackRank ==
    Answered
    => (/\ result.rm_h = Reported(query.m_ranks, query.home_id)
        /\ result.rm_v = Reported(query.m_ranks, query.away_id)
        /\ result.ra_h = Reported(query.a_ranks, query.home_id)
        /\ result.ra_v = Reported(query.a_ranks, query.away_id)
        /\ WithReferee => result.ref_rank = Reported(query.ref_ranks, query.referee)
        /\ (~WithReferee /\ query.home_id \notin DOMAIN query.m_ranks)
              => result.h = Truncated((L - 15) + (L - result.ra_v), 2 * L - 2)
        /\ (~WithReferee /\ query.away_id \notin DOMAIN query.a_ranks)
              => result.h = Truncated((L - result.rm_h) + (L - 15), 2 * L - 2)
        /\ (WithReferee /\ query.referee \notin DOMAIN query.ref_ranks)
              => result.h = Truncated((L - result.rm_h) + (L - result.ra_v) + (L - 15),
                                      3 * L - 3))

\* a cards query for a home team missing from the made ranking and a referee
\* missing from the referee ranking, with the away team at position 20 of the
\* against ranking, was answered with ranks 15, 20 and 15
C20_Witness ==
    /\ Answered
    /\ WithReferee
    /\ query.home_id \notin DOMAIN query.m_ranks
    /\ query.referee \notin DOMAIN query.ref_ranks
    /\ query.a_ranks = RankDict("t2", 20, "t1", 1)
    /\ result.rm_h = 15
    /\ result.ref_rank = 15
    /\ result.h = 45

---------------------------------------------------------------------------
(* Properties of the leaderboards *)

\* the step is a call that returned team lists
TeamsAnswered == team_stats' # team_stats /\ stats_query.page = "teams"

\* the step is a call of get_rankings_from_stats
RankingsAnswered == team_stats' # team_stats /\ stats_query.page = "rankings"

\* the finished matches team X played
FinishedOf(X) ==
    {r \in matches : r.finished /\ (r.id_home_team = X \/ r.id_away_team = X)}

\* the ids of the N most recent finished matches of team X (all of them when
\* N is 0 or X has fewer); kickoff times of one team are pairwise different
OwnWindow(X, N) ==
    {r.id : r \in {q \in FinishedOf(X) :
                      N = 0 \/ Cardinality({o \in FinishedOf(X) : o.date > q.date}) < N}}

\* the entries of a list
EntriesOf(lst) == {lst[i] : i \in 1..Len(lst)}

\* C14: with limit = N > 0, the made and the against total of the entry of
\* team X are the events counted for X in X's own N most recent finished
\* matches and in no other match, and pj is the number of those matches.
C14_WindowIsolation ==
    [][(TeamsAnswered /\ stats_query.limit > 0)
       => (/\ \A e \in EntriesOf(team_stats'.made) :
                 /\ e.pj = Cardinality(OwnWindow(e.id, stats_query.limit))
                 /\ e.total = SumOf({x \in MadeTally(DbNow, stats_query.category,
                                                      stats_query.filter_type) :
                                        x.team = e.id
                                        /\ x.match_id \in OwnWindow(e.id, stats_query.limit)})
           /\ \A e \in EntriesOf(team_stats'.against) :
                 /\ e.pj = Cardinality(OwnWindow(e.id, stats_query.limit))
                 /\ e.total = SumOf({x \in AgainstTally(DbNow, stats_query.category,
                                                         stats_query.filter_type) :
                                        x.team = e.id
                                        /\ x.match_id \in OwnWindow(e.id, stats_query.limit)}))]_vars

\* the number of shots team X took in match m
ShotsIn(X, m) ==
    Cardinality({i \in 1..Len(shots) : shots[i].team_id = X /\ shots[i].match_id = m})

\* the last-match shots leaderboard was computed when t1 and t2 had played
\* m2 and t1 had played m3 since: the entry of t1 counts its shots of m3, not
\* those it took in m2, the match the entry of t2 counts
C14_Witness ==
    /\ stats_query.page = "teams"
    /\ stats_query.category = "shots"
    /\ stats_query.filter_type = "all"
    /\ stats_query.limit = 1
    /\ team_stats.asked
    /\ OwnWindow("t1", 1) = {"m3"}
    /\ OwnWindow("t2", 1) = {"m2"}
    /\ ShotsIn("t1", "m2") > 0
    /\ \E e \in EntriesOf(team_stats.made) :
          e.id = "t1" /\ e.pj = 1 /\ e.total = ShotsIn("t1", "m3")
                      /\ e.total # ShotsIn("t1", "m3") + ShotsIn("t1", "m2")
    /\ \E e \in EntriesOf(team_stats.made) :
          e.id = "t2" /\ e.pj = 1 /\ e.total = ShotsIn("t2", "m2")

\* the matches team X played, within its window when the call has a limit
PlayedBy(X) ==
    {r \in matches : (r.id_home_team = X \/ r.id_away_team = X)
                     /\ (stats_query.limit > 0 => r.id \in OwnWindow(X, stats_query.limit))}

\* the side that faces X in match row r
Rival(r, X) == IF r.id_home_team = X THEN r.id_away_team ELSE r.id_home_team

\* the events of the category of the call that the rivals of X produced in
\* the matches X played: shots, headers and cards of the rival side, fouls
\* committed by the players of the rival side
RivalOutput(X) ==
    CASE stats_query.category \in {"shots", "headers"} ->
            Cardinality({i \in 1..Len(shots) :
                /\ ShotPasses(stats_query.category, stats_query.filter_type, shots[i])
                /\ \E r \in PlayedBy(X) : r.id = shots[i].match_id
                                          /\ shots[i].team_id = Rival(r, X)})
      [] stats_query.category = "cards" ->
            Cardinality({i \in 1..Len(cards) :
                \E r \in PlayedBy(X) : r.id = cards[i].match_id
                                       /\ cards[i].team_id = Rival(r, X)})
      [] OTHER ->
            SumOf({[key |-> <<p.match_id, p.player_id>>, n |-> p.fouls_committed] :
                     p \in {q \in player_match_details :
                              \E r \in PlayedBy(X) : r.id = q.match_id
                                                     /\ q.team_id = Rival(r, X)}})

\* C15: in every category the against total of the entry of team T is what
\* T's rivals produced in the matches T played; for fouls, the fouls the
\* players of the rival side committed.
C15_AgainstIsRivalOutput ==
    [][TeamsAnswered
       => \A e \in EntriesOf(team_stats'.against) : e.total = RivalOutput(e.id)]_vars

\* every stored appearance, shot and card belongs to a match stored as finished
ChildrenFinished ==
    \A r \in matches :
        (\/ RowsOf(player_match_details, r.id) # {}
         \/ SeqRowsOf(shots, r.id) # <<>>
         \/ SeqRowsOf(cards, r.id) # <<>>) => r.finished

\* C16: in every team entry, with or without limit, pj is the number of
\* finished matches the team played (within its window), matches without an
\* event of the category included, and avg is total / pj rounded to two
\* decimals.
C16_MatchesPlayed ==
    [][(TeamsAnswered /\ ChildrenFinished)
       => \A e \in EntriesOf(team_stats'.made) \cup EntriesOf(team_stats'.against) :
             /\ e.pj = Cardinality(OwnWindow(e.id, stats_query.limit))
             /\ e.pj > 0 => e.avg = (200 * e.total + e.pj) \div (2 * e.pj)
             /\ e.pj = 0 => e.avg = 0]_vars

\* the step is a call of the two referee functions
RefereesAnswered == ref_stats' # ref_stats

\* the referees that have at least one finished match
Referees == {r.referee : r \in {q \in matches : q.finished}} \ {None}

\* the cards shown in the finished matches of referee R
CardsUnder(R) ==
    Cardinality({i \in 1..Len(cards) :
        \E r \in matches : r.finished /\ r.referee = R /\ r.id = cards[i].match_id})

\* the fouls committed in the finished matches of referee R
FoulsUnder(R) ==
    SumOf({[key |-> <<p.match_id, p.player_id>>, n |-> p.fouls_committed] :
             p \in {q \in player_match_details :
                      \E r \in matches : r.finished /\ r.referee = R /\ r.id = q.match_id}})

CardTotals == [R \in Referees |-> CardsUnder(R)]
FoulTotals == [R \in Referees |-> FoulsUnder(R)]

\* pos is a position of R when the referees are sorted descending by totals
IsPosition(pos, R, totals) ==
    /\ pos > Cardinality({o \in Referees : totals[o] > totals[R]})
    /\ pos <= Cardinality({o \in Referees : totals[o] >= totals[R]})

\* where the list holds R, that is at position pos, unless another referee
\* has the same total
SamePlace(lst, pos, R, totals) ==
    \A i \in 1..Len(lst) :
        (lst[i].name = R /\ \A o \in Referees \ {R} : totals[o] # totals[R]) => pos = i

\* C17: the cards rank (fouls rank) of every referee with a finished match is
\* its 1-based position among those referees sorted descending by total cards
\* (fouls committed), the same as in the detailed tops; matches without
\* referee take no position and only referees with a finished match are ranked.
C17_RefereeRank ==
    [][RefereesAnswered
       => (/\ \A R \in Referees :
                 /\ R \in DOMAIN ref_stats'.rankings.cards
                 /\ R \in DOMAIN ref_stats'.rankings.fouls
                 /\ IsPosition(ref_stats'.rankings.cards[R], R, CardTotals)
                 /\ IsPosition(ref_stats'.rankings.fouls[R], R, FoulTotals)
                 /\ SamePlace(ref_stats'.tops.cards, ref_stats'.rankings.cards[R], R, CardTotals)
                 /\ SamePlace(ref_stats'.tops.fouls, ref_stats'.rankings.fouls[R], R, FoulTotals)
           /\ DOMAIN ref_stats'.rankings.cards \ {None} \subseteq Referees
           /\ DOMAIN ref_stats'.rankings.fouls \ {None} \subseteq Referees)]_vars

\* the total the list holds for team X, 0 when it has no entry
TotalIn(lst, X) ==
    IF \E e \in EntriesOf(lst) : e.id = X
    THEN (CHOOSE e \in EntriesOf(lst) : e.id = X).total
    ELSE 0

\* from the list old to the list new the total of X grew and nothing else
\* changed
OnlyGrew(old, new, X) ==
    /\ {e.id : e \in EntriesOf(old)} = {e.id : e \in EntriesOf(new)}
    /\ TotalIn(new, X) > TotalIn(old, X)
    /\ \A e \in EntriesOf(old) : e.id # X => TotalIn(new, e.id) = e.total

\* the place of team X in the list
PlaceIn(lst, X) == CHOOSE i \in 1..Len(lst) : lst[i].id = X

\* C18: in a ranking sorted by total, a team whose total grew while every
\* other total stayed as it was does not get a larger rank number (in the rank
\* dicts of get_rankings_from_stats and in the lists of get_team_stats_core).
C18_RankMonotone ==
    [][(team_stats' # team_stats /\ stats_query.order_by = "total" /\ team_stats.asked)
       => (/\ \A X \in DOMAIN team_stats.rank_made :
                 OnlyGrew(team_stats.made, team_stats'.made, X)
                 => team_stats'.rank_made[X] <= team_stats.rank_made[X]
           /\ \A X \in DOMAIN team_stats.rank_against :
                 OnlyGrew(team_stats.against, team_stats'.against, X)
                 => team_stats'.rank_against[X] <= team_stats.rank_against[X]
           /\ \A X \in {e.id : e \in EntriesOf(team_stats.made)} :
                 OnlyGrew(team_stats.made, team_stats'.made, X)
                 => PlaceIn(team_stats'.made, X) <= PlaceIn(team_stats.made, X)
           /\ \A X \in {e.id : e \in EntriesOf(team_stats.against)} :
                 OnlyGrew(team_stats.against, team_stats'.against, X)
                 => PlaceIn(team_stats'.against, X) <= PlaceIn(team_stats.against, X))]_vars

\* the shots ranking by total after t1, level with t2 on one shot each
\* before, took another one in m3: t1 is first
C18_Witness ==
    /\ stats_query.page = "rankings"
    /\ stats_query.category = "shots"
    /\ stats_query.filter_type = "all"
    /\ stats_query.order_by = "total"
    /\ team_stats.asked
    /\ last.match_id = "m3"
    /\ ShotsIn("t1", "m3") = 1
    /\ ShotsIn("t1", "m1") + ShotsIn("t1", "m2") = 1
    /\ ShotsIn("t2", "m1") + ShotsIn("t2", "m2") = 1
    /\ DOMAIN team_stats.rank_made = {"t1", "t2"}
    /\ TotalIn(team_stats.made, "t1") = 2
    /\ TotalIn(team_stats.made, "t2") = 1
    /\ team_stats.rank_made["t1"] = 1

\* the entry a sorts strictly before the entry b
Outranks(a, b) ==
    IF stats_query.order_by = "total" THEN a.total > b.total
    ELSE a.total * b.pj > b.total * a.pj

\* the ranks of the k entries of lst are the numbers 1..k, each once, and
\* a strictly greater sort value has a strictly smaller rank
DenseRanks(lst, ranks) ==
    /\ DOMAIN ranks = {e.id : e \in EntriesOf(lst)}
    /\ {ranks[id] : id \in DOMAIN ranks} = 1..Len(lst)
    /\ Cardinality(DOMAIN ranks) = Len(lst)
    /\ \A a, b \in EntriesOf(lst) : Outranks(a, b) => ranks[a.id] < ranks[b.id]

\* C19: the ranks get_rankings_from_stats assigns to the k teams of a
\* leaderboard are exactly 1..k, none twice, and a team with a strictly greater
\* sort value has a strictly smaller rank number.
C19_DenseRanks ==
    [][RankingsAnswered
       => (/\ DenseRanks(team_stats'.made, team_stats'.rank_made)
           /\ DenseRanks(team_stats'.against, team_stats'.rank_against))]_vars

\* a ranking of three teams of which the first has more than the second
C19_Witness ==
    /\ stats_query.page = "rankings"
    /\ team_stats.asked
    /\ Len(team_stats.made) = 3
    /\ team_stats.made[1].total > team_stats.made[2].total
    /\ team_stats.rank_made[team_stats.made[1].id] = 1
    /\ team_stats.rank_made[team_stats.made[2].id] = 2
    /\ team_stats.rank_made[team_stats.made[3].id] = 3


\* C25: the result carries a referee rank, and the side scores the third
\* term, exactly when a non-empty referee name is given and the category is
\* cards or fouls; otherwise ref_rank is None, both side scores are the
\* two-term quotient and gen is (h + v) // 2.
C25_RefereeTermWhereDefined ==
    Answered
    => (/\ (result.ref_rank # NoRank)
              <=> (query.referee \notin {None, ""} /\ query.category \in {"cards", "fouls"})
        /\ (result.ref_rank # NoRank)
              => /\ result.h = Truncated((L - result.rm_h) + (L - result.ra_v)
                                            + (L - result.ref_rank), 3 * L - 3)
                 /\ result.v = Truncated((L - result.rm_v) + (L - result.ra_h)
                                            + (L - result.ref_rank), 3 * L - 3)
        /\ (result.ref_rank = NoRank)
              => /\ result.h = Truncated((L - result.rm_h) + (L - result.ra_v), 2 * L - 2)
                 /\ result.v = Truncated((L - result.rm_v) + (L - result.ra_h), 2 * L - 2)
                 /\ result.gen = (result.h + result.v) \div 2)

\* a shots query that names referee r1 was answered without referee rank, with
\* different side scores and their floored mean as the combined score
C25_Witness ==
    /\ Answered
    /\ query.referee = "r1"
    /\ query.category = "shots"
    /\ result.ref_rank = NoRank
    /\ result.h # result.v
    /\ (result.h + result.v) % 2 = 1
    /\ result.gen = (result.h + result.v) \div 2

---------------------------------------------------------------------------
(* Properties of the windowed rankings *)

\* the step is a call of get_league_player_stats_last_matches
PlayersAnswered == player_stats' # player_stats /\ stats_query.page = "players"

\* the teams of the fixture list
TeamsListed == team_ids(DbNow)

\* the players with a row for a finished match, none of them with minutes
PlayersWithoutMinutes ==
    {pid \in {r.player_id : r \in player_match_details} :
        /\ \E r \in player_match_details :
              r.player_id = pid /\ \E q \in matches : q.id = r.match_id /\ q.finished
        /\ \A r \in player_match_details : r.player_id = pid => r.minutes_played = 0}

\* an entry of the list for entity X with pj 0 and average 0
ZeroEntry(lst, X) == \E e \in EntriesOf(lst) : e.id = X /\ e.pj = 0 /\ e.avg = 0

\* C21: a windowed ranking gives every team without finished match an entry
\* with total 0, pj 0 and average 0 in both lists, and every player whose
\* appearances all have zero minutes an entry with pj 0 and average 0.
C21_ZeroMatchAverage ==
    [][/\ (TeamsAnswered /\ stats_query.limit > 0)
            => \A X \in TeamsListed :
                  FinishedOf(X) = {}
                    => /\ \E e \in EntriesOf(team_stats'.made) :
                             e.id = X /\ e.total = 0 /\ e.pj = 0 /\ e.avg = 0
                       /\ \E e \in EntriesOf(team_stats'.against) :
                             e.id = X /\ e.total = 0 /\ e.pj = 0 /\ e.avg = 0
       /\ PlayersAnswered
            => \A pid \in PlayersWithoutMinutes : ZeroEntry(player_stats'.out, pid)]_vars


\* the names the fixture list shows for team X, as home or as away side
DisplayNames(X) ==
    {r.home_team : r \in {q \in matches : q.id_home_team = X}}
        \cup {r.away_team : r \in {q \in matches : q.id_away_team = X}}

\* list lst has exactly one entry for team X, and it carries X's name
ListedOnce(lst, X) ==
    /\ Cardinality({i \in 1..Len(lst) : lst[i].id = X}) = 1
    /\ \A e \in EntriesOf(lst) : e.id = X => e.name \in DisplayNames(X)

\* C29: with a limit, the made and the against list each hold exactly one
\* entry for every team that is home or away side of some match, a team seen
\* only as away side included, and the entry carries the team's display name.
C29_EveryTeamListed ==
    [][(TeamsAnswered /\ stats_query.limit > 0)
        => \A X \in TeamsListed :
              /\ ListedOnce(team_stats'.made, X)
              /\ ListedOnce(team_stats'.against, X)]_vars

\* the finished matches player pid has an appearance row for
AppearedIn(pid) ==
    {r \in matches : r.finished /\ \E a \in player_match_details :
                                       a.player_id = pid /\ a.match_id = r.id}

\* the ids of the N most recent of them
PlayerWindow(pid, N) ==
    {r.id : r \in {q \in AppearedIn(pid) :
                      Cardinality({o \in AppearedIn(pid) : o.date > q.date}) < N}}

\* C24: with match limit N every entry of the player ranking has pj <= N, and
\* its total counts the events of the player in the player's own N most recent
\* finished matches, whichever team he appeared for.
C24_PlayerWindow ==
    [][PlayersAnswered
        => \A e \in EntriesOf(player_stats'.out) :
              /\ e.pj <= stats_query.limit
              /\ e.total = SumOf({x \in PlayerTally(DbNow, stats_query.category,
                                                    stats_query.filter_type) :
                                     /\ x.player = e.id
                                     /\ x.match_id \in PlayerWindow(e.id, stats_query.limit)})]_vars

\* the match ids the child tables hold rows for
ChildIds ==
    {r.match_id : r \in player_match_details}
      \cup {shots[i].match_id : i \in 1..Len(shots)}
      \cup {cards[i].match_id : i \in 1..Len(cards)}

\* C26: whatever was ingested so far, every row of player_match_details,
\* shots and cards belongs to a match whose matches row exists and has
\* finished = true.
C26_ChildrenUnderFinished ==
    \A m \in ChildIds : \E r \in matches : r.id = m /\ r.finished

\* match m is stored as finished and has no appearance rows
Incomplete(m) ==
    /\ \E r \in matches : r.id = m /\ r.finished
    /\ RowsOf(player_match_details, m) = {}

\* a run of get_automated_updates has match m among the ids it ingests
InBatch(m) == running /\ \E i \in 1..Len(match_ids) : match_ids[i] = m

\* no request is left in the behaviour
BudgetSpent == fetches >= MaxFetch

\* C27: a match stored as finished without its appearance rows is later among
\* the ids a run of get_automated_updates ingests (or has got its rows
\* otherwise), as long as requests are left.
C27_EventuallyReingested ==
    \A m \in MatchIds : Incomplete(m) ~> (InBatch(m) \/ ~Incomplete(m) \/ BudgetSpent)

\* the rows of a table with an id of its own that do not belong to match X
OthersIn(table, X) == SelectSeq(table, LAMBDA r : r.match_id # X)

\* C28: a call load_match_directly(X), whatever the payload and whether it
\* succeeds or fails, leaves the matches rows and the player_match_details,
\* shots and cards rows of every other match id as they were.
C28_ScopedToOneMatch ==
    [][IsCall
        => /\ {r \in matches' : r.id # last'.match_id} = {r \in matches : r.id # last'.match_id}
           /\ {r \in player_match_details' : r.match_id # last'.match_id}
                = {r \in player_match_details : r.match_id # last'.match_id}
           /\ OthersIn(shots', last'.match_id) = OthersIn(shots, last'.match_id)
           /\ OthersIn(cards', last'.match_id) = OthersIn(cards, last'.match_id)]_vars

\* m2 was ingested with rows for all three child tables, or failed after its
\* matches row, while m1 had its matches row and child rows: they are still
\* there
C28_Witness ==
    /\ last.match_id = "m2"
    /\ last.payload.finished
    /\ \E r \in matches : r.id = "m2" /\ r.finished
    /\ \E r \in matches : r.id = "m1" /\ r.finished
    /\ RowsOf(player_match_details, "m1") # {}
    /\ SeqRowsOf(shots, "m1") # <<>>
    /\ SeqRowsOf(cards, "m1") # <<>>
    /\ \/ Failed(last)
       \/ /\ RowsOf(player_match_details, "m2") # {}
          /\ SeqRowsOf(shots, "m2") # <<>>
          /\ SeqRowsOf(cards, "m2") # <<>>

---------------------------------------------------------------------------
(* Properties of side-by-side ingestion *)

\* both calls have returned
AllDone == \A p \in Procs : At(p, "done")

\* the tables after the call of process p ran, start to end, on the tables db
RunAlone(p, db) ==
    load_match_directly(MatchOf(p), concurrent.calls[p].payload, db).db

\* the rows of match m: its matches row and its child rows, the child rows of
\* shots and cards in the order of their ids
ContentsOf(db, m) ==
    [matches |-> {r \in db.matches : r.id = m},
     player_match_details |-> RowsOf(db.player_match_details, m),
     shots |-> SeqRowsOf(db.shots, m),
     cards |-> SeqRowsOf(db.cards, m)]

\* C22: when two calls for different match ids have both returned, the rows of
\* every match id are those that running the two calls one after the other
\* leaves, in either order, whatever the interleaving of their steps was.
C22_SameAsSequential ==
    AllDone =>
        \A m \in SeasonIds :
            /\ ContentsOf(DbNow, m) = ContentsOf(RunAlone("b", RunAlone("a", concurrent.before)), m)
            /\ ContentsOf(DbNow, m) = ContentsOf(RunAlone("a", RunAlone("b", concurrent.before)), m)

\* both calls ingested a complete report, their steps interleaved (the log
\* has a line of m2 between two lines of m1 and a line of m1 between two of
\* m2), and each match has its child rows
C22_Witness ==
    /\ AllDone
    /\ \A p \in Procs : concurrent.calls[p].payload = FullPayload(MatchOf(p))
    /\ concurrent.before = EmptyDb
    /\ \E i, j, k, l \in 1..Len(log) :
          /\ i < j /\ j < k /\ k < l
          /\ log[i].match_id = "m1" /\ log[j].match_id = "m2"
          /\ log[k].match_id = "m1" /\ log[l].match_id = "m2"
    /\ \A m \in MatchIds :
          /\ RowsOf(player_match_details, m) # {}
          /\ SeqRowsOf(shots, m) # <<>>
          /\ SeqRowsOf(cards, m) # <<>>
    /\ shots[1].match_id # cards[1].match_id


---------------------------------------------------------------------------
(* Properties of the batch run *)

\* the step is get_automated_updates up to its loop
RunBegins == ~running /\ fetches' = fetches /\ log' # log

\* the gameweek of the most recent finished match, "1" when no match is
\* finished
CurrentLabels ==
    IF LastFinished(matches) = {} THEN {"1"} ELSE {r.gameweek : r \in LastFinished(matches)}

\* the gameweek after a numbered one
NextLabel(lbl) ==
    IF IsInt(lbl) /\ IntOf(lbl) < Len(NumStr) THEN {NumStr[IntOf(lbl) + 1]} ELSE {}

\* the matches not finished whose gameweek is lbl or the one after it
PendingSet(lbl) ==
    {q.id : q \in {r \in matches : ~r.finished /\ r.gameweek \in {lbl} \cup NextLabel(lbl)}}

\* C23: a run selects the unfinished matches of the gameweek of the most
\* recent finished match (1 if none) and of the next one, each id once; the
\* loop ingests the first id still to do, then goes on with the ids after it,
\* also when the call logged a failure, and ends after the last one.
C23_SequentialBatch ==
    [][/\ RunBegins
            => \E lbl \in CurrentLabels :
                  IF PendingSet(lbl) = {}
                  THEN ~running'
                  ELSE /\ running'
                       /\ Len(match_ids') = Cardinality(PendingSet(lbl))
                       /\ {match_ids'[i] : i \in 1..Len(match_ids')} = PendingSet(lbl)
       /\ (running /\ IsCall)
            => /\ last'.match_id = Head(match_ids)
               /\ match_ids' = Tail(match_ids)
               /\ running' = (Tail(match_ids) # <<>>)]_vars

\* C30: whatever the gameweek label of the most recent finished match is, a
\* run does not end in the critical error, and when a match not finished
\* carries that label the run goes on to ingest it.
C30_AnyRoundLabel ==
    [][RunBegins
        => /\ \A i \in (Len(log) + 1)..Len(log') : log'[i].msg # "critical"
           /\ \A r \in LastFinished(matches) : \A q \in matches :
                 (~q.finished /\ q.gameweek = r.gameweek)
                    => (running' /\ \E i \in 1..Len(match_ids') : match_ids'[i] = q.id)]_vars

=============================================================================
